---- MODULE Spec2Model ----
(***************************************************************************)
(* A model of the mabel front end: Lexer::tokenize, Parser::parse,        *)
(* SemanticChecker::check and the DataType lattice.                       *)
(*                                                                         *)
(* A source is a sequence of grapheme clusters, each written as a string. *)
(* The source code (a Rust String) is the sequence of the UTF-8 bytes of  *)
(* its graphemes; byte offsets index that sequence.  Option<T> is a       *)
(* sequence of length at most one; a Result is a record with a tag        *)
(* "Ok" or "Err"; a Rust panic is the tag "Abort".                        *)
(***************************************************************************)
EXTENDS Integers, Sequences, FiniteSets, TLC

VARIABLES
    pc,            \* which call comes next: "tokenize", "parse", "check", "done"
    lexer,         \* the Lexer struct
    tokens,        \* tokenize_internal's local Vec<Option<Token>>
    lex_result,    \* what Lexer::tokenize returned, once it has
    is_main_module,\* the flag Parser::parse was called with
    parse_result,  \* what Parser::parse returned, once it has
    check_result,  \* what SemanticChecker::check returned, once it has
    lhs_type,      \* DataType harness: first argument
    rhs_type,      \* DataType harness: second argument
    type_result,   \* DataType harness: what the applied function returned
    compile_result \* what invoke_compiler returned, once it has

vars == <<pc, lexer, tokens, lex_result, is_main_module, parse_result,
          check_result, lhs_type, rhs_type, type_result, compile_result>>

(***************************************************************************)
(* Bounds of the model.                                                    *)
(***************************************************************************)
MaxLen == 4

MaxNumLen == 4

MaxOps == 3
\* The most statements of a generated module.
MaxStatements == 2
\* The longest source of spaces, tabs and line ends, in graphemes.
MaxLayoutLen == 4
\* The most words, digits and blanks of a generated source of identifiers.
MaxWords == 4
\* The most literals of a generated sum of literals.
MaxLiterals == 2

(***************************************************************************)
(* Option and Result.                                                      *)
(***************************************************************************)
None == <<>>

Some(x) == <<x>>

unwrap(o) == o[1]

Ok(v) == [tag |-> "Ok", value |-> v]

Err(e) == [tag |-> "Err", error |-> e]

Abort(why) == [tag |-> "Abort", reason |-> why]

Pending == [tag |-> "Pending"]

(***************************************************************************)
(* Graphemes.                                                              *)
(***************************************************************************)
Utf8(c) ==
    CASE c = "\r\n" -> <<"\r", "\n">>
      [] OTHER -> <<c>>

RECURSIVE Concat(_)
Concat(ss) == IF ss = <<>> THEN <<>> ELSE Head(ss) \o Concat(Tail(ss))

SourceCode(graphemes) == Concat([i \in 1 .. Len(graphemes) |-> Utf8(graphemes[i])])

DecimalDigits == {"0", "1", "2", "3", "4", "5", "6", "7", "8", "9"}

HexDigits == DecimalDigits \cup {"a", "b", "c", "d", "e", "f", "A", "B", "C", "D", "E", "F"}

BinaryDigits == {"0", "1"}

OctalDigits == {"0", "1", "2", "3", "4", "5", "6", "7"}

Letters == {"a", "b", "c", "d", "e", "f", "h", "i", "o", "u", "x",
            "A", "B", "C", "D", "E", "F"}

\* Every grapheme a modelled source can hold.
Graphemes ==
    Letters \cup DecimalDigits \cup
    {"+", "-", "*", "/", "%", "(", ")", ";", ":", ".", "_", "\\",
     " ", "\t", "\n", "\r\n", "\r", "\f"}

is_xid_start(c) == c \in Letters

is_xid_continue(c) == c \in Letters \cup DecimalDigits \cup {"_"}

is_whitespace(c) == c \in {" ", "\t", "\n", "\r", "\f", "\r\n"}

is_skipable(c) ==
    /\ Len(Utf8(c)) = 1
    /\ is_whitespace(c)
    /\ c \notin {"\n", "\r\n", " ", "\t"}

is_newline(c) == c = "\n" \/ c = "\r\n"

is_digit(c, base) ==
    CASE base = "Decimal" -> c \in DecimalDigits
      [] base = "Hexadecimal" -> c \in HexDigits
      [] base = "Binary" -> c \in BinaryDigits
      [] base = "Octal" -> c \in OctalDigits

(***************************************************************************)
(* Position, Span, Token.                                                  *)
(***************************************************************************)
Position_default == [line |-> 1, column |-> 1, char_index |-> 0, offset |-> 0]

Span_new(start, end) == [start |-> start, end |-> end]

Span_default == Span_new(Position_default, Position_default)

Token_new(kind, span, lexeme, source_id) ==
    [kind |-> kind, span |-> span, lexeme |-> lexeme, source_id |-> source_id]

Kind(tag) == [tag |-> tag]

(***************************************************************************)
(* Lexer.                                                                  *)
(***************************************************************************)
Lexer_new(source_id, graphemes) ==
    [source_id |-> source_id,
     graphemes |-> graphemes,
     source_code |-> SourceCode(graphemes),
     start |-> Position_default,
     current |-> Position_default,
     previous_line_column_count |-> 0]

Lexer_is_eoi(lx) == lx.current.char_index >= Len(lx.graphemes)

Lexer_peek_nth(lx, n) ==
    IF lx.current.char_index + n < Len(lx.graphemes)
    THEN Some(lx.graphemes[lx.current.char_index + n + 1])
    ELSE None

Lexer_peek(lx) == Lexer_peek_nth(lx, 0)

PeekIs(lx, S) == Lexer_peek(lx) # None /\ unwrap(Lexer_peek(lx)) \in S

Lexer_previous(lx) == Some(lx.graphemes[lx.current.char_index])

\* advance() as it would be if the offset were reset at each new line, as
\* the column is; C26 tells the two apart.
Lexer_advance_offset_per_line(lx) ==
    LET c == unwrap(Lexer_peek(lx))
    IN [lx EXCEPT
          !.previous_line_column_count = IF is_newline(c) THEN lx.current.column ELSE @,
          !.current = [line |-> IF is_newline(c) THEN @.line + 1 ELSE @.line,
                       column |-> IF is_newline(c) THEN 1 ELSE @.column + 1,
                       char_index |-> @.char_index + 1,
                       offset |-> IF is_newline(c) THEN 0 ELSE @.offset + Len(Utf8(c))]]

\* advance() of a lexer that is not at the end of the input; at the end
\* peek().unwrap() panics, which the callers model.
Lexer_advance(lx) ==
    LET c == unwrap(Lexer_peek(lx))
    IN [lx EXCEPT
          !.previous_line_column_count = IF is_newline(c) THEN lx.current.column ELSE @,
          !.current = [line |-> IF is_newline(c) THEN @.line + 1 ELSE @.line,
                       column |-> IF is_newline(c) THEN 1 ELSE @.column + 1,
                       char_index |-> @.char_index + 1,
                       offset |-> @.offset + Len(Utf8(c))]]

\* while !is_eoi() && peek() is in S { advance() }
RECURSIVE AdvanceWhile(_, _)
AdvanceWhile(lx, S) ==
    IF ~Lexer_is_eoi(lx) /\ PeekIs(lx, S)
    THEN AdvanceWhile(Lexer_advance(lx), S)
    ELSE lx

\* while !is_eoi() && peek() is not in S { advance() }
RECURSIVE AdvanceUntil(_, _)
AdvanceUntil(lx, S) ==
    IF ~Lexer_is_eoi(lx) /\ Lexer_peek(lx) # None /\ unwrap(Lexer_peek(lx)) \notin S
    THEN AdvanceUntil(Lexer_advance(lx), S)
    ELSE lx

skip_skipable(lx) == AdvanceWhile(lx, {c \in Graphemes : is_skipable(c)})

match_and_consume(lx, expected) ==
    IF PeekIs(lx, {expected}) THEN Lexer_advance(lx) ELSE lx

\* new_token as it would be if it cut the lexeme by grapheme index rather
\* than by byte offset; C7 tells the two apart on a two-byte grapheme.
new_token_by_char_index(lx, kind) ==
    Some(Token_new(kind,
                   Span_new(lx.start, lx.current),
                   SubSeq(lx.source_code, lx.start.char_index + 1, lx.current.char_index),
                   lx.source_id))

new_token(lx, kind) ==
    Some(Token_new(kind,
                   Span_new(lx.start, lx.current),
                   SubSeq(lx.source_code, lx.start.offset + 1, lx.current.offset),
                   lx.source_id))

\* What a scanning function hands back: the lexer it leaves and its
\* LexerResult<Option<Token>>.
Scanned(lx, result) == [lexer |-> lx, result |-> result]

LexerError(code, location, source_id) ==
    [code |-> code, location |-> location, source_id |-> source_id]

Location_Position(p) == [tag |-> "Position", position |-> p]

Location_Span(s) == [tag |-> "Span", span |-> s]

create_single_line_comment_token(lx) ==
    LET token(l1) == Scanned(l1, Ok(new_token(l1, Kind("SingleLineComment"))))
    IN token(AdvanceUntil(lx, {c \in Graphemes : is_newline(c)}))

\* create_reserved_or_identifier_token as it would be if a run that begins
\* with echo were the keyword; C20 tells the two apart.
create_reserved_or_identifier_token_by_prefix(lx) ==
    LET token(l1, text) ==
            IF Len(text) >= 4 /\ SubSeq(text, 1, 4) = <<"e", "c", "h", "o">>
            THEN Scanned(l1, Ok(new_token(l1, Kind("Echo"))))
            ELSE Scanned(l1, Err(LexerError("UnimplementedFeature",
                                            Location_Span(Span_new(l1.start, l1.current)),
                                            l1.source_id)))
        lexeme(l1) ==
            token(l1, SubSeq(l1.source_code, l1.start.offset + 1, l1.current.offset))
    IN lexeme(AdvanceWhile(lx, {c \in Graphemes : is_xid_continue(c)}))

create_reserved_or_identifier_token(lx) ==
    LET token(l1, text) ==
            IF text = <<"e", "c", "h", "o">>
            THEN Scanned(l1, Ok(new_token(l1, Kind("Echo"))))
            ELSE Scanned(l1, Err(LexerError("UnimplementedFeature",
                                            Location_Span(Span_new(l1.start, l1.current)),
                                            l1.source_id)))
        lexeme(l1) ==
            token(l1, SubSeq(l1.source_code, l1.start.offset + 1, l1.current.offset))
    IN lexeme(AdvanceWhile(lx, {c \in Graphemes : is_xid_continue(c)}))

int_possible_widths == {<<"8">>, <<"1", "6">>, <<"3", "2">>, <<"6", "4">>}

float_possible_widths == {<<"3", "2">>, <<"6", "4">>}

\* validate_number_width as it would be if the suffix d took the widths of
\* the suffix f; C8 tells the two apart.
validate_number_width_double_as_float(width_lexeme, suffix) ==
    CASE suffix \in {"f", "d"} ->
           width_lexeme = <<>> \/ width_lexeme \in float_possible_widths
      [] suffix \in {"i", "u"} -> width_lexeme = <<>> \/ width_lexeme \in int_possible_widths

validate_number_width(width_lexeme, suffix) ==
    CASE suffix = "f" -> width_lexeme = <<>> \/ width_lexeme \in float_possible_widths
      [] suffix = "d" -> width_lexeme = <<>>
      [] suffix \in {"i", "u"} -> width_lexeme = <<>> \/ width_lexeme \in int_possible_widths

DigitsOf(base) ==
    CASE base = "Decimal" -> DecimalDigits
      [] base = "Hexadecimal" -> HexDigits
      [] base = "Binary" -> BinaryDigits
      [] base = "Octal" -> OctalDigits

\* The end of consume_number: the Literal token of the number.
consume_number_token(lx, base, has_int_part, is_int, has_expontent, suffix_start_pos) ==
    Scanned(lx, Ok(new_token(lx,
        [tag |-> "Literal",
         kind |-> IF is_int
                  THEN [tag |-> "Integer", base |-> base,
                        has_integer_part |-> has_int_part]
                  ELSE [tag |-> "Float", base |-> base,
                        has_exponent_part |-> has_expontent],
         suffix_start |-> suffix_start_pos])))

\* The message of InvalidNumberLiteralWidth: its key and its arguments.
InvalidWidthMessage(suffix, width_lexeme, is_int) ==
    IF suffix = "d"
    THEN [key |-> "no-width-for-double"]
    ELSE [key |-> "invalid-number-literal-width",
          width |-> width_lexeme,
          literal_kind |-> IF is_int THEN "int" ELSE "float",
          valid_widths |-> IF is_int THEN int_possible_widths
                           ELSE float_possible_widths]

\* The suffix of consume_number: l3 stands before the suffix letter, l4
\* after it and l5 after the digits of the width.
consume_number_suffix(l3, l4, l5, base, has_int_part, is_int, has_expontent) ==
    LET suffix == unwrap(Lexer_peek(l3))
        width_lexeme == SubSeq(l5.source_code, l4.current.offset + 1, l5.current.offset)
    IN IF ~validate_number_width(width_lexeme, suffix)
       THEN Scanned(l5, Err([code |-> "InvalidNumberLiteralWidth",
                             message |-> InvalidWidthMessage(suffix, width_lexeme, is_int),
                             location |-> Location_Span(Span_new(l3.current, l5.current)),
                             source_id |-> l5.source_id]))
       ELSE consume_number_token(l5, base, has_int_part, is_int, has_expontent,
                                 Some(l3.current))

\* consume_number after the exponent part.
consume_number_after_exponent(l3, base, has_int_part, is_int, has_expontent) ==
    IF PeekIs(l3, {"f", "d", "i", "u"})
    THEN consume_number_suffix(l3, Lexer_advance(l3),
                               AdvanceWhile(Lexer_advance(l3), DecimalDigits),
                               base, has_int_part, is_int, has_expontent)
    ELSE consume_number_token(l3, base, has_int_part, is_int, has_expontent, None)

\* consume_number after the fractional part.
consume_number_after_fraction(l2, base, has_int_part, is_int) ==
    LET has_expontent == base = "Decimal" /\ PeekIs(l2, {"e", "E"})
    IN consume_number_after_exponent(
           IF has_expontent
           THEN AdvanceWhile(IF PeekIs(Lexer_advance(l2), {"+", "-"})
                             THEN Lexer_advance(Lexer_advance(l2))
                             ELSE Lexer_advance(l2),
                             DigitsOf(base))
           ELSE l2,
           base, has_int_part, is_int /\ ~has_expontent, has_expontent)

\* consume_number after the int part, which took the lexer from l0 to l1.
consume_number_after_int(l0, l1, base) ==
    LET has_fraction == /\ base = "Decimal"
                        /\ PeekIs(l1, {"."})
                        /\ Lexer_peek_nth(l1, 1) # None
                        /\ is_digit(unwrap(Lexer_peek_nth(l1, 1)), base)
    IN consume_number_after_fraction(
           IF has_fraction THEN AdvanceWhile(Lexer_advance(l1), DigitsOf(base)) ELSE l1,
           base, base = "Decimal" \/ l1.current # l0.current, ~has_fraction)

consume_number(lx, base) ==
    consume_number_after_int(lx, AdvanceWhile(lx, DigitsOf(base)), base)

create_number_token(lx) ==
    LET starting_number == unwrap(Lexer_previous(lx))
    IN IF starting_number = "0"
       THEN IF PeekIs(lx, {"x"})
            THEN consume_number(match_and_consume(lx, "x"), "Hexadecimal")
            ELSE IF PeekIs(lx, {"b"})
            THEN consume_number(match_and_consume(lx, "b"), "Binary")
            ELSE IF PeekIs(lx, {"o"})
            THEN consume_number(match_and_consume(lx, "o"), "Octal")
            ELSE consume_number(lx, "Decimal")
       ELSE consume_number(lx, "Decimal")

\* scan_run as it would be if a run that gives no token were left in the
\* source, the lexer going back to where the run starts; C30 tells the two
\* apart.
scan_run_rewinding(lx, c, kind) ==
    LET token(l1) ==
            IF /\ l1.start.column = 1
               /\ Lexer_peek(l1) # None
               /\ ~is_newline(unwrap(Lexer_peek(l1)))
            THEN Scanned(l1, Ok(new_token(l1, Kind(kind))))
            ELSE Scanned([l1 EXCEPT !.current = l1.start], Ok(None))
    IN token(AdvanceWhile(lx, {c}))

\* scan_run as it would be if a run were collected at any column; C19 tells
\* the two apart.
scan_run_any_column(lx, c, kind) ==
    LET token(l1) ==
            IF /\ Lexer_peek(l1) # None
               /\ ~is_newline(unwrap(Lexer_peek(l1)))
            THEN Scanned(l1, Ok(new_token(l1, Kind(kind))))
            ELSE Scanned(l1, Ok(None))
    IN token(AdvanceWhile(lx, {c}))

\* The space and the tab arms of scan_token.
scan_run(lx, c, kind) ==
    LET token(l1) ==
            IF /\ l1.start.column = 1
               /\ Lexer_peek(l1) # None
               /\ ~is_newline(unwrap(Lexer_peek(l1)))
            THEN Scanned(l1, Ok(new_token(l1, Kind(kind))))
            ELSE Scanned(l1, Ok(None))
    IN token(AdvanceWhile(lx, {c}))

\* The match of scan_token on the grapheme c that advance() returned, lx
\* being the lexer after it.
scan_grapheme(c, lx) ==
    LET single(kind) == Scanned(lx, Ok(new_token(lx, Kind(kind))))
        star(l1) == IF l1 # lx
                    THEN Scanned(l1, Ok(new_token(l1, Kind("Exponent"))))
                    ELSE single("Multiply")
        slash(l1) == IF l1 # lx
                     THEN create_single_line_comment_token(l1)
                     ELSE single("Divide")
    IN IF is_xid_start(c) THEN create_reserved_or_identifier_token(lx)
       ELSE IF c \in DecimalDigits THEN create_number_token(lx)
       ELSE CASE c = "+" -> single("Add")
              [] c = "-" -> single("SubtractOrNegate")
              [] c = "*" -> star(match_and_consume(lx, "*"))
              [] c = "/" -> slash(match_and_consume(lx, "/"))
              [] c = "%" -> single("Modulo")
              [] c = "(" -> single("LeftParen")
              [] c = ")" -> single("RightParen")
              [] c = ";" -> single("SemiColon")
              [] c = ":" -> single("Colon")
              [] c = " " -> scan_run(lx, " ", "Whitespace")
              [] c = "\t" -> scan_run(lx, "\t", "Tab")
              [] OTHER ->
                   IF is_newline(c)
                   THEN single("NewLine")
                   ELSE Scanned(lx, Err(LexerError("UnexpectedCharacter",
                                                   Location_Position(lx.start),
                                                   lx.source_id)))

\* scan_token after skip_skipable() and self.start = self.current.
scan_token_at(l0) ==
    IF Lexer_is_eoi(l0)
    THEN Scanned(l0, Abort("advance: peek().unwrap() on None"))
    ELSE scan_grapheme(unwrap(Lexer_peek(l0)), Lexer_advance(l0))

\* self.start = self.current
start_token(lx) == [lx EXCEPT !.start = lx.current]

scan_token(lexer0) == scan_token_at(start_token(skip_skipable(lexer0)))

\* tokens.into_iter().filter(|t| t.is_some()).map(|t| t.unwrap())
RECURSIVE filter_some(_)
filter_some(ts) ==
    IF ts = <<>> THEN <<>>
    ELSE IF Head(ts) = None THEN filter_some(Tail(ts))
    ELSE <<unwrap(Head(ts))>> \o filter_some(Tail(ts))

(***************************************************************************)
(* AST: get_span.                                                          *)
(***************************************************************************)
RECURSIVE Expression_get_span(_)
Expression_get_span(e) ==
    CASE e.tag = "Literal" ->
           IF e.token = None THEN None ELSE Some(unwrap(e.token).span)
      [] e.tag = "Grouping" ->
           IF e.left_paren_token # None /\ e.right_paren_token # None
           THEN Some(Span_new(unwrap(e.left_paren_token).span.start,
                              unwrap(e.right_paren_token).span.end))
           ELSE None
      [] e.tag = "Unary" ->
           LET right_span == Expression_get_span(e.right)
           IN IF e.operator_token # None /\ right_span # None
              THEN Some(Span_new(unwrap(e.operator_token).span.start,
                                 unwrap(right_span).end))
              ELSE None
      [] e.tag = "Binary" ->
           LET left_span == Expression_get_span(e.left)
               right_span == Expression_get_span(e.right)
           IN IF left_span # None /\ right_span # None
              THEN Some(Span_new(unwrap(left_span).start, unwrap(right_span).end))
              ELSE None

Statement_get_span(stmt) ==
    CASE stmt.tag = "Expression" -> Expression_get_span(stmt.expression)
      [] stmt.tag = "Echo" ->
           LET expression_span == Expression_get_span(stmt.expression)
           IN IF stmt.echo_token # None /\ expression_span # None
              THEN Some(Span_new(unwrap(stmt.echo_token).span.start,
                                 unwrap(expression_span).end))
              ELSE None

(***************************************************************************)
(* Parser.  A parsing function hands back Ok with the value and the        *)
(* parser it leaves, Err with a ParserError, or Abort where the Rust code  *)
(* panics (an index out of bounds, an unwrap of None or of Err).           *)
(***************************************************************************)
\* Precedence as it would be if Factor were the level of Term; C11 tells
\* the two apart.
Precedence_factor_as_term ==
    [None |-> 0, Term |-> 1, Factor |-> 1, Unary |-> 3, Exponent |-> 4, Primary |-> 5]

Precedence ==
    [None |-> 0, Term |-> 1, Factor |-> 2, Unary |-> 3, Exponent |-> 4, Primary |-> 5]

Parser_new(toks, source_id, main) ==
    [source_id |-> source_id, tokens |-> toks, is_main_module |-> main, current |-> 0]

Parsed(v, P) == [tag |-> "Ok", value |-> v, parser |-> P]

ParserError(code, location, source_id) ==
    [code |-> code, location |-> location, source_id |-> source_id]

\* self.tokens[i]: in bounds or a panic
InBounds(P, i) == 0 <= i /\ i < Len(P.tokens)

TokenAt(P, i) == P.tokens[i + 1]

Parser_previous(P) == TokenAt(P, P.current - 1)

ParseRule(prefix_fn, infix_fn, precedence, associativity) ==
    [prefix_fn |-> prefix_fn, infix_fn |-> infix_fn,
     precedence |-> precedence, associativity |-> associativity]

get_parse_rule(kind) ==
    CASE kind.tag = "Add" ->
           ParseRule(None, Some("parse_binary_expr"), Precedence.Term, "Left")
      [] kind.tag = "SubtractOrNegate" ->
           ParseRule(Some("parse_unary_expr"), Some("parse_binary_expr"),
                     Precedence.Term, "Left")
      [] kind.tag = "Multiply" ->
           ParseRule(None, Some("parse_binary_expr"), Precedence.Factor, "Left")
      [] kind.tag = "Divide" ->
           ParseRule(None, Some("parse_binary_expr"), Precedence.Factor, "Left")
      [] kind.tag = "Exponent" ->
           ParseRule(None, Some("parse_binary_expr"), Precedence.Exponent, "Right")
      [] kind.tag = "Modulo" ->
           ParseRule(None, Some("parse_binary_expr"), Precedence.Factor, "Left")
      [] kind.tag = "LeftParen" ->
           ParseRule(Some("parse_grouping_expr"), None, Precedence.Primary, "None")
      [] kind.tag = "Literal" ->
           ParseRule(Some("parse_literal_expr"), None, Precedence.Primary, "None")
      [] OTHER ->
           ParseRule(None, None, Precedence.None, "None")

(***************************************************************************)
(* str::parse::<T>() on the bytes of a lexeme.                             *)
(***************************************************************************)
DigitValue(d) ==
    CASE d = "0" -> 0 [] d = "1" -> 1 [] d = "2" -> 2 [] d = "3" -> 3
      [] d = "4" -> 4 [] d = "5" -> 5 [] d = "6" -> 6 [] d = "7" -> 7
      [] d = "8" -> 8 [] d = "9" -> 9

RECURSIVE DecimalValue(_)
DecimalValue(text) ==
    IF text = <<>> THEN 0
    ELSE 10 * DecimalValue(SubSeq(text, 1, Len(text) - 1)) + DigitValue(text[Len(text)])

AllDecimal(text) == \A i \in 1 .. Len(text) : text[i] \in DecimalDigits

\* The largest value of the 8 and 16 bit integer types.  A digit string of
\* a modelled source is shorter than ten digits, so it never exceeds the
\* largest value of a 32 or 64 bit type.
Narrow ==
    [UInt8 |-> 255, UInt16 |-> 65535, Int8 |-> 127, Int16 |-> 32767]

\* <integer type>::from_str: Err on the empty string, on a byte that is no
\* decimal digit, and on overflow.
parse_integer(text, type) ==
    IF text = <<>> \/ ~AllDecimal(text) THEN Err("ParseIntError")
    ELSE IF type \in DOMAIN Narrow /\ DecimalValue(text) > Narrow[type]
    THEN Err("ParseIntError")
    ELSE Ok([tag |-> type, number |-> DecimalValue(text)])

\* The index of the first byte of text at or after i that is not in S
\* (Len(text) + 1 if there is none).
RECURSIVE SkipIn(_, _, _)
SkipIn(text, i, S) ==
    IF i <= Len(text) /\ text[i] \in S THEN SkipIn(text, i + 1, S) ELSE i

\* f32::from_str and f64::from_str on text without sign, inf or nan:
\* digits, an optional dot and digits, with at least one digit in all, and
\* an optional exponent that has at least one digit.
parse_float(text, type) ==
    LET \* d is the index after the exponent, c the index of its first digit
        end(mantissaDigits, hasExp, c, d) ==
            IF /\ mantissaDigits > 0
               /\ hasExp => d > c
               /\ d = Len(text) + 1
            THEN Ok([tag |-> type, text |-> text])
            ELSE Err("ParseFloatError")
        digits(mantissaDigits, c) ==
            end(mantissaDigits, TRUE, c, SkipIn(text, c, DecimalDigits))
        \* b is the index after the mantissa
        exponent(mantissaDigits, b) ==
            IF b <= Len(text) /\ text[b] \in {"e", "E"}
            THEN digits(mantissaDigits,
                        IF b + 1 <= Len(text) /\ text[b + 1] \in {"+", "-"}
                        THEN b + 2 ELSE b + 1)
            ELSE end(mantissaDigits, FALSE, b, b)
        fraction(a, b) == exponent((a - 1) + (b - a - 1), b)
        \* a is the index after the digits before the dot
        mantissa(a) ==
            IF a <= Len(text) /\ text[a] = "."
            THEN fraction(a, SkipIn(text, a + 1, DecimalDigits))
            ELSE exponent(a - 1, a)
    IN mantissa(SkipIn(text, 1, DecimalDigits))

\* The (char, u8) of a suffix, or a panic.
parse_suffix_string(suffix) ==
    LET width == parse_integer(SubSeq(suffix, 2, Len(suffix)), "UInt8")
    IN IF suffix = <<>>
       THEN Abort("parse_suffix_string: chars().next().unwrap() on None")
       ELSE CASE suffix[1] \in {"u", "i", "f"} ->
                   IF Len(suffix) = 1
                   THEN Ok(<<suffix[1], IF suffix[1] = "f" THEN 32 ELSE 0>>)
                   ELSE IF width.tag = "Ok" THEN Ok(<<suffix[1], width.value.number>>)
                   ELSE Abort("parse_suffix_string: parse().unwrap() on Err")
              [] suffix[1] = "d" -> Ok(<<"d", 64>>)
              [] OTHER -> Abort("unexpected suffix")

\* The data type of a literal with the suffix (char, u8), or None: the arms
\* of the match of parse_integer_literal_expr.
integer_literal_type(ps) ==
    CASE ps = <<"i", 0>> -> Some("Int")
      [] ps = <<"i", 8>> -> Some("Int8")
      [] ps = <<"i", 16>> -> Some("Int16")
      [] ps = <<"i", 32>> -> Some("Int32")
      [] ps = <<"i", 64>> -> Some("Int64")
      [] ps = <<"u", 0>> -> Some("UInt")
      [] ps = <<"u", 8>> -> Some("UInt8")
      [] ps = <<"u", 16>> -> Some("UInt16")
      [] ps = <<"u", 32>> -> Some("UInt32")
      [] ps = <<"u", 64>> -> Some("UInt64")
      [] ps = <<"f", 32>> -> Some("Float32")
      [] ps = <<"f", 64>> -> Some("Double")
      [] ps = <<"d", 64>> -> Some("Double")
      [] OTHER -> None

\* The arms of the match of parse_float_literal_expr.
float_literal_type(ps) ==
    CASE ps = <<"f", 32>> -> Some("Float32")
      [] ps = <<"f", 64>> -> Some("Double")
      [] ps = <<"d", 64>> -> Some("Double")
      [] OTHER -> None

\* Expression::Literal of <type>::from_str(number_lexeme).unwrap()
LiteralExpr(parsed, parent_token, P) ==
    IF parsed.tag = "Ok"
    THEN Parsed([tag |-> "Literal", value |-> parsed.value, token |-> Some(parent_token)],
                P)
    ELSE Abort("parse().unwrap() on Err")

\* The arm of the match on the parsed suffix that type stands for.
literal_of(P, parent_token, number_lexeme, type) ==
    IF type = None THEN Abort("unexpected suffix")
    ELSE LiteralExpr(IF unwrap(type) \in {"Float32", "Double"}
                     THEN parse_float(number_lexeme, unwrap(type))
                     ELSE parse_integer(number_lexeme, unwrap(type)),
                     parent_token, P)

parse_integer_literal_expr(P, parent_token, integer, suffix_start) ==
    LET raw_number_lexeme == parent_token.lexeme
        suffix_start_relative ==
            IF suffix_start = None THEN Len(raw_number_lexeme)
            ELSE unwrap(suffix_start).offset - parent_token.span.start.offset
        parsed_suffix ==
            IF suffix_start = None THEN Ok(<<"i", 0>>)
            ELSE parse_suffix_string(SubSeq(raw_number_lexeme, suffix_start_relative + 1,
                                            Len(raw_number_lexeme)))
    IN IF parsed_suffix.tag # "Ok" THEN parsed_suffix
       ELSE literal_of(P, parent_token,
                       IF integer.base = "Decimal"
                       THEN SubSeq(raw_number_lexeme, 1, suffix_start_relative)
                       ELSE SubSeq(raw_number_lexeme, 3, suffix_start_relative),
                       integer_literal_type(parsed_suffix.value))

parse_float_literal_expr(P, parent_token, float, suffix_start) ==
    LET raw_number_lexeme == parent_token.lexeme
        \* raw_number_lexeme[.. suffix_start.offset]: the offset in the source
        cut == IF suffix_start = None THEN Len(raw_number_lexeme)
               ELSE unwrap(suffix_start).offset
        parsed_suffix ==
            IF suffix_start = None THEN Ok(<<"f", 64>>)
            ELSE parse_suffix_string(SubSeq(raw_number_lexeme, cut + 1,
                                            Len(raw_number_lexeme)))
    IN IF cut > Len(raw_number_lexeme)
       THEN Abort("byte index out of bounds of the lexeme")
       ELSE IF parsed_suffix.tag # "Ok" THEN parsed_suffix
       ELSE literal_of(P, parent_token, SubSeq(raw_number_lexeme, 1, cut),
                       float_literal_type(parsed_suffix.value))

parse_literal_expr(P) ==
    LET literal == Parser_previous(P)
    IN IF literal.kind.kind.tag = "Integer"
       THEN parse_integer_literal_expr(P, literal, literal.kind.kind,
                                       literal.kind.suffix_start)
       ELSE parse_float_literal_expr(P, literal, literal.kind.kind,
                                     literal.kind.suffix_start)

BinaryOperatorOf(kind) ==
    CASE kind.tag = "Add" -> "Add"
      [] kind.tag = "SubtractOrNegate" -> "Subtract"
      [] kind.tag = "Multiply" -> "Multiply"
      [] kind.tag = "Divide" -> "Divide"
      [] kind.tag = "Exponent" -> "Exponent"
      [] kind.tag = "Modulo" -> "Modulo"

RECURSIVE pratt_parse(_, _)
RECURSIVE pratt_parse_loop(_, _, _)
RECURSIVE parse_grouping_expr(_)
RECURSIVE parse_unary_expr(_)
RECURSIVE parse_binary_expr(_, _)

parse_expression(P) == pratt_parse(P, Precedence.Term)

\* pratt_parse with an operand parsed: its error, or the while loop over
\* the infix operators that follow.
pratt_parse_infix(lhs, precedence) ==
    IF lhs.tag # "Ok" THEN lhs
    ELSE pratt_parse_loop(lhs.parser, lhs.value, precedence)

\* pratt_parse as it would be if ExpectedExpression were located at the first
\* token of the list; C21 tells the two apart.
pratt_parse_error_at_first_token(P, precedence) ==
    LET lhs_token == TokenAt(P, P.current)
        P1 == [P EXCEPT !.current = @ + 1]
        prefix_fn == get_parse_rule(lhs_token.kind).prefix_fn
    IN IF ~InBounds(P, P.current)
       THEN Abort("advance: index out of bounds")
       ELSE IF prefix_fn = None
       THEN Err(ParserError("ExpectedExpression", Location_Span(TokenAt(P, 0).span),
                            P.source_id))
       ELSE pratt_parse_infix(
                CASE prefix_fn = Some("parse_unary_expr") -> parse_unary_expr(P1)
                  [] prefix_fn = Some("parse_grouping_expr") -> parse_grouping_expr(P1)
                  [] prefix_fn = Some("parse_literal_expr") -> parse_literal_expr(P1),
                precedence)

\* The head of pratt_parse: the token that starts the expression.
pratt_parse(P, precedence) ==
    LET lhs_token == TokenAt(P, P.current)
        P1 == [P EXCEPT !.current = @ + 1]
        prefix_fn == get_parse_rule(lhs_token.kind).prefix_fn
    IN IF ~InBounds(P, P.current)
       THEN Abort("advance: index out of bounds")
       ELSE IF prefix_fn = None
       THEN Err(ParserError("ExpectedExpression", Location_Span(lhs_token.span),
                            P.source_id))
       ELSE pratt_parse_infix(
                CASE prefix_fn = Some("parse_unary_expr") -> parse_unary_expr(P1)
                  [] prefix_fn = Some("parse_grouping_expr") -> parse_grouping_expr(P1)
                  [] prefix_fn = Some("parse_literal_expr") -> parse_literal_expr(P1),
                precedence)

\* One pass of the while loop of pratt_parse.
pratt_parse_loop(P, lhs, precedence) ==
    LET infix_rule == get_parse_rule(TokenAt(P, P.current).kind)
    IN IF ~InBounds(P, P.current)
       THEN Abort("tokens[current]: index out of bounds")
       ELSE IF precedence <= infix_rule.precedence
       THEN IF infix_rule.infix_fn = None
            THEN Abort("infix_fn.unwrap() on None")
            ELSE pratt_parse_infix(parse_binary_expr([P EXCEPT !.current = @ + 1], lhs),
                                   precedence)
       ELSE Parsed(lhs, P)

parse_grouping_expr(P) ==
    LET left_paren_token == Parser_previous(P)
        inner == parse_expression(P)
    IN IF inner.tag # "Ok" THEN inner
       ELSE IF ~InBounds(inner.parser, inner.parser.current)
       THEN Abort("advance: index out of bounds")
       ELSE Parsed([tag |-> "Grouping",
                    left_paren_token |-> Some(left_paren_token),
                    expression |-> inner.value,
                    right_paren_token |->
                        Some(TokenAt(inner.parser, inner.parser.current))],
                   [inner.parser EXCEPT !.current = @ + 1])

parse_unary_expr(P) ==
    LET operator_token == Parser_previous(P)
        right == pratt_parse(P, Precedence.Unary)
    IN IF right.tag # "Ok" THEN right
       ELSE Parsed([tag |-> "Unary",
                    operator |-> "Negate",
                    operator_token |-> Some(operator_token),
                    right |-> right.value],
                   right.parser)

\* parse_binary_expr as it would be if every operator were left-associative;
\* C12 tells the two apart.
parse_binary_expr_all_left(P, left_expr) ==
    LET operator_token == Parser_previous(P)
        rule == get_parse_rule(operator_token.kind)
        right == pratt_parse(P, rule.precedence + 1)
    IN IF right.tag # "Ok" THEN right
       ELSE Parsed([tag |-> "Binary",
                    left |-> left_expr,
                    operator |-> BinaryOperatorOf(operator_token.kind),
                    operator_token |-> Some(operator_token),
                    right |-> right.value],
                   right.parser)

\* parse_binary_expr as it would be if every operator were right-associative;
\* C13 tells the two apart.
parse_binary_expr_all_right(P, left_expr) ==
    LET operator_token == Parser_previous(P)
        rule == get_parse_rule(operator_token.kind)
        right == pratt_parse(P, rule.precedence)
    IN IF right.tag # "Ok" THEN right
       ELSE Parsed([tag |-> "Binary",
                    left |-> left_expr,
                    operator |-> BinaryOperatorOf(operator_token.kind),
                    operator_token |-> Some(operator_token),
                    right |-> right.value],
                   right.parser)

parse_binary_expr(P, left_expr) ==
    LET operator_token == Parser_previous(P)
        rule == get_parse_rule(operator_token.kind)
        right == pratt_parse(P, IF rule.associativity = "Right"
                                THEN rule.precedence
                                ELSE rule.precedence + 1)
    IN IF rule.associativity # "Right" /\ rule.precedence + 1 > Precedence.Primary
       THEN Abort("from_u8(precedence + 1).unwrap() on None")
       ELSE IF right.tag # "Ok" THEN right
       ELSE Parsed([tag |-> "Binary",
                    left |-> left_expr,
                    operator |-> BinaryOperatorOf(operator_token.kind),
                    operator_token |-> Some(operator_token),
                    right |-> right.value],
                   right.parser)

RECURSIVE consume_newlines(_)
consume_newlines(P) ==
    IF ~InBounds(P, P.current) THEN Abort("peek: index out of bounds")
    ELSE IF TokenAt(P, P.current).kind.tag = "NewLine"
    THEN consume_newlines([P EXCEPT !.current = @ + 1])
    ELSE Parsed(<<>>, P)

\* Statement::Echo or Statement::Expression of the parsed expression e
\* (echo_token is None for an expression statement), or the error of e.
simple_stmt_of(echo_token, e) ==
    IF e.tag # "Ok" THEN e
    ELSE IF echo_token # None
    THEN Parsed([tag |-> "Echo", echo_token |-> echo_token, expression |-> e.value],
                e.parser)
    ELSE Parsed([tag |-> "Expression", expression |-> e.value], e.parser)

parse_echo_stmt(P) == simple_stmt_of(Some(Parser_previous(P)), parse_expression(P))

parse_expression_stmt(P) == simple_stmt_of(None, parse_expression(P))

parse_simple_stmt(P) ==
    IF ~InBounds(P, P.current) THEN Abort("match_and_consume: index out of bounds")
    ELSE IF TokenAt(P, P.current).kind.tag = "Echo"
    THEN parse_echo_stmt([P EXCEPT !.current = @ + 1])
    ELSE parse_expression_stmt(P)

\* parse_statement with the simple statement parsed: consume_newlines.
parse_statement_end(stmt) ==
    LET after == consume_newlines(stmt.parser)
    IN IF stmt.tag # "Ok" THEN stmt
       ELSE IF after.tag # "Ok" THEN after
       ELSE Parsed(<<stmt.value>>, after.parser)

parse_statement(P) == parse_statement_end(parse_simple_stmt(P))

RECURSIVE parse_statements_from(_, _)

\* statements.extend(self.parse_statement()?), and the loop again
parse_statements_extend(statement, statements) ==
    IF statement.tag # "Ok" THEN statement
    ELSE parse_statements_from(statement.parser, statements \o statement.value)

\* while !self.is_eoi() { ... }
parse_statements_from(P, statements) ==
    IF ~InBounds(P, P.current) THEN Abort("peek: index out of bounds")
    ELSE IF TokenAt(P, P.current).kind.tag = "EndOfInput"
    THEN Parsed(statements, P)
    ELSE parse_statements_extend(parse_statement(P), statements)

parse_statements(P) == parse_statements_from(P, <<>>)

\* The function that parse_module wraps the statements of a main module in.
main_function(source_id, statements) ==
    LET first_stmt_span == IF statements = <<>> THEN None
                           ELSE Statement_get_span(statements[1])
    IN [tag |-> "FunctionDeclaration",
        function_token |->
            Some(Token_new(Kind("Function"),
                           IF first_stmt_span = None THEN Span_default
                           ELSE unwrap(first_stmt_span),
                           <<"f", "u", "n", "c">>, source_id)),
        name |-> Some(Token_new(Kind("Identifier"), Span_default,
                                <<"m", "a", "i", "n">>, source_id)),
        left_paren_token |-> None,
        parameters |-> <<>>,
        right_paren_token |-> None,
        body |-> statements]

\* module_of as it would be if a main module were not wrapped; C14 tells the
\* two apart.
module_of_never_wrapped(P0, parsed) ==
    IF parsed.tag # "Ok" THEN parsed
    ELSE Ok([id |-> P0.source_id, statements |-> parsed.value])

\* parse_module with the statements parsed.
module_of(P0, parsed) ==
    IF parsed.tag # "Ok" THEN parsed
    ELSE IF P0.is_main_module
    THEN Ok([id |-> P0.source_id,
             statements |-> <<main_function(P0.source_id, parsed.value)>>])
    ELSE Ok([id |-> P0.source_id, statements |-> parsed.value])

parse_module(P0) ==
    LET start == consume_newlines(P0)
    IN IF start.tag # "Ok" THEN start
       ELSE module_of(P0, parse_statements(start.parser))

Parser_parse(source_id, main, toks) == parse_module(Parser_new(toks, source_id, main))

(***************************************************************************)
(* DataType.                                                               *)
(***************************************************************************)
KnownDataType ==
    {"UInt8", "UInt16", "UInt32", "UInt64", "Int8", "Int16", "Int32", "Int64",
     "Int", "UInt", "Float32", "Double"}

Known(kind) == [tag |-> "Known", kind |-> kind]

UserDefined(name) == [tag |-> "UserDefined", kind |-> name]

IsKnown(t, kinds) == t.tag = "Known" /\ t.kind \in kinds

is_same(lhs, rhs) ==
    IF lhs.tag = "Known" /\ rhs.tag = "Known" THEN lhs.kind = rhs.kind ELSE FALSE

\* get_bit_size as it would be if Int and UInt were 64 bits wide; C9 tells
\* the two apart.
get_bit_size_wide_int(t) ==
    CASE IsKnown(t, {"UInt8", "Int8"}) -> 8
      [] IsKnown(t, {"UInt16", "Int16"}) -> 16
      [] IsKnown(t, {"UInt32", "Int32", "Float32"}) -> 32
      [] IsKnown(t, {"UInt64", "Int64", "Int", "UInt", "Double"}) -> 64
      [] t.tag = "UserDefined" -> 0

get_bit_size(t) ==
    CASE IsKnown(t, {"UInt8"}) -> 8
      [] IsKnown(t, {"UInt16"}) -> 16
      [] IsKnown(t, {"UInt32"}) -> 32
      [] IsKnown(t, {"UInt64"}) -> 64
      [] IsKnown(t, {"Int8"}) -> 8
      [] IsKnown(t, {"Int16"}) -> 16
      [] IsKnown(t, {"Int32"}) -> 32
      [] IsKnown(t, {"Int64"}) -> 64
      [] IsKnown(t, {"Int"}) -> 32
      [] IsKnown(t, {"UInt"}) -> 32
      [] IsKnown(t, {"Float32"}) -> 32
      [] IsKnown(t, {"Double"}) -> 64
      [] t.tag = "UserDefined" -> 0

is_signed_integer(t) == IsKnown(t, {"Int8", "Int16", "Int32", "Int64", "Int"})

is_unsigned_integer(t) == IsKnown(t, {"UInt8", "UInt16", "UInt32", "UInt64", "UInt"})

is_floating_point(t) == IsKnown(t, {"Float32", "Double"})

\* can_implictly_cast_to as it would be if the target had to be strictly
\* wider than the source; C22 tells the two apart.
can_implictly_cast_to_strictly_wider(source, target) ==
    LET source_bit_size == get_bit_size(source)
    IN IF is_signed_integer(source)
       THEN \/ (is_signed_integer(target) /\ get_bit_size(target) > source_bit_size)
            \/ is_floating_point(target)
       ELSE IF is_unsigned_integer(source)
       THEN \/ (is_unsigned_integer(target) /\ get_bit_size(target) > source_bit_size)
            \/ is_floating_point(target)
       ELSE IF is_floating_point(source)
       THEN is_floating_point(target) /\ get_bit_size(target) > source_bit_size
       ELSE FALSE

can_implictly_cast_to(source, target) ==
    LET source_bit_size == get_bit_size(source)
    IN IF is_signed_integer(source)
       THEN \/ (is_signed_integer(target) /\ get_bit_size(target) >= source_bit_size)
            \/ is_floating_point(target)
       ELSE IF is_unsigned_integer(source)
       THEN \/ (is_unsigned_integer(target) /\ get_bit_size(target) >= source_bit_size)
            \/ is_floating_point(target)
       ELSE IF is_floating_point(source)
       THEN is_floating_point(target) /\ get_bit_size(target) >= source_bit_size
       ELSE FALSE

\* binary_expr_result_data_type as it would be if it gave the right type
\* where the right type casts to the left one; C10 tells the two apart.
binary_expr_result_data_type_right(l, r) ==
    IF is_same(l, r) THEN Some(l)
    ELSE IF can_implictly_cast_to(r, l) THEN Some(r)
    ELSE IF can_implictly_cast_to(l, r) THEN Some(r)
    ELSE None

binary_expr_result_data_type(l, r) ==
    IF is_same(l, r) THEN Some(l)
    ELSE IF can_implictly_cast_to(r, l) THEN Some(l)
    ELSE IF can_implictly_cast_to(l, r) THEN Some(r)
    ELSE None

(***************************************************************************)
(* SemanticChecker.  A visit hands back Ok with the annotated node or Err  *)
(* with a SemanticCheckerError.                                            *)
(***************************************************************************)
Label(style, location, text) == [style |-> style, location |-> location, text |-> text]

SemanticCheckerError(code, labels, source_id) ==
    [code |-> code, labels |-> labels, source_id |-> source_id]

Annotated(tag, inner, data_type) == [tag |-> tag, inner |-> inner, data_type |-> data_type]

check_unary_negate_operands(source_id, unary, rhs) ==
    LET labels(right_span) ==
            (IF unary.operator_token # None
             THEN <<Label("Secondary",
                          Location_Span(unwrap(unary.operator_token).span),
                          "operator")>>
             ELSE <<>>)
            \o
            (IF right_span # None
             THEN <<Label("Primary", Location_Span(unwrap(right_span)), rhs.kind)>>
             ELSE <<>>)
    IN IF ~is_floating_point(rhs) \/ ~is_signed_integer(rhs)
       THEN Err(SemanticCheckerError("InvalidOperand",
                                     labels(Expression_get_span(unary.right)),
                                     source_id))
       ELSE Ok(rhs)

\* check_binary_arithmetic_operands as it would be if it labelled the
\* operands only, not the operator; C15 tells the two apart.
check_binary_arithmetic_operands_two_labels(source_id, binary, lhs, rhs) ==
    IF binary_expr_result_data_type(lhs, rhs) = None
    THEN Err(SemanticCheckerError(
                 "InvalidOperand",
                 <<Label("Secondary",
                         Location_Span(unwrap(Expression_get_span(binary.left))),
                         lhs.kind),
                   Label("Primary",
                         Location_Span(unwrap(Expression_get_span(binary.right))),
                         rhs.kind)>>,
                 source_id))
    ELSE Ok(unwrap(binary_expr_result_data_type(lhs, rhs)))

check_binary_arithmetic_operands(source_id, binary, lhs, rhs) ==
    LET labels(left_span, right_span) ==
            (IF binary.operator_token # None
             THEN <<Label("Secondary",
                          Location_Span(unwrap(binary.operator_token).span),
                          "operator")>>
             ELSE <<>>)
            \o
            (IF left_span # None
             THEN <<Label("Secondary", Location_Span(unwrap(left_span)), lhs.kind)>>
             ELSE <<>>)
            \o
            (IF right_span # None
             THEN <<Label("Primary", Location_Span(unwrap(right_span)), rhs.kind)>>
             ELSE <<>>)
        result(maybe_result_data_type) ==
            IF maybe_result_data_type = None
            THEN Err(SemanticCheckerError("InvalidOperand",
                                          labels(Expression_get_span(binary.left),
                                                 Expression_get_span(binary.right)),
                                          source_id))
            ELSE Ok(unwrap(maybe_result_data_type))
    IN result(binary_expr_result_data_type(lhs, rhs))

visit_literal_expr(literal) ==
    Ok(Annotated("Literal", literal, Known(literal.value.tag)))

RECURSIVE visit_expression(_, _)

visit_unary_expr(source_id, unary_expr) ==
    LET annotated(right_data_type, data_type) ==
            IF data_type.tag # "Ok" THEN data_type
            ELSE Ok(Annotated("Unary",
                              [operator |-> unary_expr.operator,
                               operator_token |-> unary_expr.operator_token,
                               right |-> right_data_type.value],
                              data_type.value))
        checked(right_data_type) ==
            IF right_data_type.tag # "Ok" THEN right_data_type
            ELSE annotated(right_data_type,
                           check_unary_negate_operands(source_id, unary_expr,
                               right_data_type.value.data_type))
    IN checked(visit_expression(source_id, unary_expr.right))

\* visit_grouping_expr as it would be if it built a Group node around the
\* inner expression; C16 tells the two apart.
visit_grouping_expr_wrapped(source_id, grouping) ==
    LET annotated(expression) ==
            IF expression.tag # "Ok" THEN expression
            ELSE Ok(Annotated("Group",
                              [left_paren_token |-> grouping.left_paren_token,
                               expression |-> expression.value,
                               right_paren_token |-> grouping.right_paren_token],
                              expression.value.data_type))
    IN annotated(visit_expression(source_id, grouping.expression))

visit_grouping_expr(source_id, grouping) ==
    visit_expression(source_id, grouping.expression)

visit_binary_expr(source_id, binary) ==
    LET annotated(left_data_type, right_data_type, data_type) ==
            IF data_type.tag # "Ok" THEN data_type
            ELSE Ok(Annotated("Binary",
                              [left |-> left_data_type.value,
                               operator |-> binary.operator,
                               operator_token |-> binary.operator_token,
                               right |-> right_data_type.value],
                              data_type.value))
        checked(left_data_type, right_data_type) ==
            IF right_data_type.tag # "Ok" THEN right_data_type
            ELSE annotated(left_data_type, right_data_type,
                           check_binary_arithmetic_operands(source_id, binary,
                               left_data_type.value.data_type,
                               right_data_type.value.data_type))
        operands(left_data_type) ==
            IF left_data_type.tag # "Ok" THEN left_data_type
            ELSE checked(left_data_type, visit_expression(source_id, binary.right))
    IN operands(visit_expression(source_id, binary.left))

visit_expression(source_id, expression) ==
    CASE expression.tag = "Literal" -> visit_literal_expr(expression)
      [] expression.tag = "Grouping" -> visit_grouping_expr(source_id, expression)
      [] expression.tag = "Unary" -> visit_unary_expr(source_id, expression)
      [] expression.tag = "Binary" -> visit_binary_expr(source_id, expression)

visit_expression_stmt(source_id, expression_stmt) ==
    LET annotated(annotated_expression) ==
            IF annotated_expression.tag # "Ok" THEN annotated_expression
            ELSE Ok(Annotated("Expression",
                              [expression |-> annotated_expression.value], None))
    IN annotated(visit_expression(source_id, expression_stmt.expression))

visit_echo_stmt(source_id, echo_stmt) ==
    LET annotated(annotated_expression) ==
            IF annotated_expression.tag # "Ok" THEN annotated_expression
            ELSE Ok(Annotated("Echo",
                              [echo_token |-> echo_stmt.echo_token,
                               expression |-> annotated_expression.value], None))
    IN annotated(visit_expression(source_id, echo_stmt.expression))

\* for statement in statements { out.push(visit_statement(statement)?) }
RECURSIVE visit_statements(_, _, _)

visit_function_decl_stmt(source_id, function) ==
    LET annotated(body) ==
            IF body.tag # "Ok" THEN body
            ELSE Ok(Annotated("FunctionDecl",
                              [function_token |-> function.function_token,
                               name |-> function.name,
                               left_paren_token |-> function.left_paren_token,
                               parameters |-> function.parameters,
                               right_paren_token |-> function.right_paren_token,
                               body |-> body.value],
                              None))
    IN annotated(visit_statements(source_id, function.body, <<>>))

visit_statement(source_id, statement) ==
    CASE statement.tag = "Expression" -> visit_expression_stmt(source_id, statement)
      [] statement.tag = "Echo" -> visit_echo_stmt(source_id, statement)
      [] statement.tag = "FunctionDeclaration" ->
           visit_function_decl_stmt(source_id, statement)

visit_statements(source_id, statements, out) ==
    LET push(stmt) ==
            IF stmt.tag # "Ok" THEN stmt
            ELSE visit_statements(source_id, Tail(statements), Append(out, stmt.value))
    IN IF statements = <<>> THEN Ok(out)
       ELSE push(visit_statement(source_id, Head(statements)))

visit_module(source_id, module) ==
    LET annotated(statements) ==
            IF statements.tag # "Ok" THEN statements
            ELSE Ok([id |-> source_id, statements |-> statements.value])
    IN annotated(visit_statements(source_id, module.statements, <<>>))

SemanticChecker_check(source_id, module) == visit_module(source_id, module)

(***************************************************************************)
(* The sources a specification starts from.                                *)
(***************************************************************************)
SeqsUpTo(S, n) == UNION {[1 .. k -> S] : k \in 0 .. n}

SourceIds == {"mabel://stdin", "file:///a.mabel"}

CoreAlphabet == {"1", "-", "*", "(", ")", " ", "\r\n", "\f", "\\"}

NumberAlphabet == {"1", "2", "3", "4", "6", "8", "f", "d", "i", "u"}

InitFrom(source_ids, sources) ==
    /\ pc = "tokenize"
    /\ \E source_id \in source_ids, source \in sources :
           lexer = Lexer_new(source_id, source)
    /\ tokens = <<>>
    /\ lex_result = Pending
    /\ is_main_module = FALSE
    /\ parse_result = Pending
    /\ check_result = Pending
    /\ lhs_type = Known("Int")
    /\ rhs_type = Known("Int")
    /\ type_result = [fn |-> "none", value |-> Pending]
    /\ compile_result = Pending

InitWith(sources) == InitFrom(SourceIds, sources)

Init == InitWith(SeqsUpTo(CoreAlphabet, MaxLen))

InitNum == InitWith(SeqsUpTo(NumberAlphabet, MaxNumLen))

\* Expressions: an operand, then up to MaxOps times a binary operator and
\* an operand.
ExprOperands == {<<"1">>, <<"1", "u", "8">>}

ExprOperators == {<<"+">>, <<"-">>, <<"*">>, <<"/">>, <<"%">>, <<"*", "*">>}

RECURSIVE ExprSources(_)
ExprSources(n) ==
    IF n = 0 THEN ExprOperands
    ELSE {s \o op \o x : s \in ExprSources(n - 1), op \in ExprOperators, x \in ExprOperands}

InitExpr == InitFrom({"mabel://stdin"}, UNION {ExprSources(n) : n \in 0 .. MaxOps})

\* Modules of statements: each statement is an expression, or echo and an
\* expression; the expressions hold a literal, groupings, binaries, a negate
\* and a pair of operands without a common type.
ModuleExprs ==
    {<<"1">>, <<"(", "1", ")">>, <<"(", "1", "+", "1", ")", "*", "1">>,
     <<"-", "1">>, <<"1", "+", "1", "u", "8">>}

ModuleStatements ==
    ModuleExprs \cup {<<"e", "c", "h", "o", " ">> \o e : e \in ModuleExprs}

RECURSIVE ModuleSources(_)
ModuleSources(n) ==
    IF n = 0 THEN {<<>>}
    ELSE IF n = 1 THEN ModuleStatements
    ELSE {s \o <<"\n">> \o stmt : s \in ModuleSources(n - 1), stmt \in ModuleStatements}

\* Sources of spaces, tabs, line ends, a form feed and a literal.
LayoutAlphabet == {" ", "\t", "\n", "\r\n", "\f", "1"}

InitLayout == InitFrom({"mabel://stdin"}, SeqsUpTo(LayoutAlphabet, MaxLayoutLen))

\* Sources of identifiers: the keyword, its letters, an underscore, a digit
\* and a blank, put one after the other.
WordItems ==
    {<<"e", "c", "h", "o">>, <<"e">>, <<"c">>, <<"h">>, <<"o">>, <<"_">>, <<"1">>, <<" ">>}

RECURSIVE WordSources(_)
WordSources(n) ==
    IF n = 0 THEN {<<>>}
    ELSE {s \o w : s \in WordSources(n - 1), w \in WordItems}

InitWords == InitFrom({"mabel://stdin"}, UNION {WordSources(n) : n \in 0 .. MaxWords})

\* Sums of number literals: an integer, a fraction, an exponent and the
\* three base prefixes, each bare or with a suffix of a valid width.
LiteralNumbers ==
    {<<"1">>, <<"1", ".", "5">>, <<"1", "e", "1">>,
     <<"0", "x", "1", "f">>, <<"0", "b", "1", "1">>, <<"0", "o", "1", "7">>}

LiteralSuffixes ==
    {<<>>, <<"f", "3", "2">>, <<"f", "6", "4">>, <<"d">>, <<"i", "8">>, <<"u">>}

Literals == {number \o suffix : number \in LiteralNumbers, suffix \in LiteralSuffixes}

RECURSIVE LiteralSources(_)
LiteralSources(n) ==
    IF n = 1 THEN Literals
    ELSE {s \o <<"+">> \o literal : s \in LiteralSources(n - 1), literal \in Literals}

InitLiterals ==
    InitFrom({"mabel://stdin"}, UNION {LiteralSources(n) : n \in 1 .. MaxLiterals})

InitModules ==
    InitFrom({"mabel://stdin"}, UNION {ModuleSources(n) : n \in 0 .. MaxStatements})

(***************************************************************************)
(* Lexer::tokenize: one pass of tokenize_internal's loop, and its end.     *)
(***************************************************************************)
ScanToken ==
    /\ pc = "tokenize"
    /\ ~Lexer_is_eoi(lexer)
    /\ \E s \in {scan_token(lexer)} :
          /\ lexer' = s.lexer
          /\ IF s.result.tag = "Ok"
             THEN /\ tokens' = Append(tokens, s.result.value)
                  /\ UNCHANGED <<pc, lex_result>>
             ELSE /\ lex_result' = s.result
                  /\ pc' = "done"
                  /\ UNCHANGED tokens
    /\ UNCHANGED <<is_main_module, parse_result, check_result, lhs_type, rhs_type, type_result,
                   compile_result>>

\* tokenize_internal as it would be without its closing push of the
\* EndOfInput token; C4 tells the two apart.
tokenize_internal_end_without_push ==
    /\ pc = "tokenize"
    /\ Lexer_is_eoi(lexer)
    /\ tokens' = tokens
    /\ lex_result' = Ok(filter_some(tokens'))
    /\ pc' = "parse"
    /\ UNCHANGED <<lexer, is_main_module, parse_result, check_result,
                   lhs_type, rhs_type, type_result,
                   compile_result>>

tokenize_internal_end ==
    /\ pc = "tokenize"
    /\ Lexer_is_eoi(lexer)
    /\ tokens' = Append(tokens, new_token(lexer, Kind("EndOfInput")))
    /\ lex_result' = Ok(filter_some(tokens'))
    /\ pc' = "parse"
    /\ UNCHANGED <<lexer, is_main_module, parse_result, check_result,
                   lhs_type, rhs_type, type_result,
                   compile_result>>

Parse ==
    /\ pc = "parse"
    /\ \E main \in BOOLEAN :
          /\ is_main_module' = main
          /\ parse_result' = Parser_parse(lexer.source_id, main, lex_result.value)
    /\ pc' = IF parse_result'.tag = "Ok" THEN "check" ELSE "done"
    /\ UNCHANGED <<lexer, tokens, lex_result, check_result, lhs_type, rhs_type, type_result,
                   compile_result>>

Check ==
    /\ pc = "check"
    /\ check_result' = SemanticChecker_check(lexer.source_id, parse_result.value)
    /\ pc' = "done"
    /\ UNCHANGED <<lexer, tokens, lex_result, is_main_module, parse_result,
                   lhs_type, rhs_type, type_result,
                   compile_result>>

Next == ScanToken \/ tokenize_internal_end \/ Parse \/ Check

Spec == Init /\ [][Next]_vars

SpecNum == InitNum /\ [][Next]_vars

SpecExpr == InitExpr /\ [][Next]_vars

SpecModules == InitModules /\ [][Next]_vars

SpecLayout == InitLayout /\ [][Next]_vars

SpecWords == InitWords /\ [][Next]_vars

SpecLiterals == InitLiterals /\ [][Next]_vars

(***************************************************************************)
(* The driver: invoke_compiler calls parse_source, which tokenizes the     *)
(* source, parses the tokens as the main module, prints the module and     *)
(* returns.  A panic of a stage unwinds through the driver.                *)
(***************************************************************************)
ExitCode_SUCCESS == 0

ExitCode_SYNTAX_ERROR == 11

Error_new(kind, exit_code) == [kind |-> kind, exit_code |-> exit_code]

ErrorKind(tag, error) == [tag |-> tag, error |-> error]

\* parse_source as it would be if a failure of the lexer did not stop it; C17
\* tells the two apart.
parse_source_past_lexer_error(lexed, parsed) ==
    IF lexed.tag = "Abort" THEN lexed
    ELSE IF parsed.tag = "Abort" THEN parsed
    ELSE IF parsed.tag = "Err"
    THEN Err(Error_new(ErrorKind("ParserError", parsed.error), ExitCode_SYNTAX_ERROR))
    ELSE Ok(<<>>)

\* What parse_source returns for the results of its two stages.
parse_source(lexed, parsed) ==
    IF lexed.tag = "Abort" THEN lexed
    ELSE IF lexed.tag = "Err"
    THEN Err(Error_new(ErrorKind("LexerError", lexed.error), ExitCode_SYNTAX_ERROR))
    ELSE IF parsed.tag = "Abort" THEN parsed
    ELSE IF parsed.tag = "Err"
    THEN Err(Error_new(ErrorKind("ParserError", parsed.error), ExitCode_SYNTAX_ERROR))
    ELSE Ok(<<>>)

parse_source_parse ==
    /\ pc = "parse"
    /\ is_main_module' = TRUE
    /\ parse_result' = Parser_parse(lexer.source_id, TRUE, lex_result.value)
    /\ pc' = "done"
    /\ UNCHANGED <<lexer, tokens, lex_result, check_result, lhs_type, rhs_type,
                   type_result, compile_result>>

invoke_compiler_return ==
    /\ pc = "done"
    /\ \E returned \in {parse_source(lex_result, parse_result)} :
          compile_result' = IF returned.tag = "Ok" THEN Ok(ExitCode_SUCCESS) ELSE returned
    /\ pc' = "returned"
    /\ UNCHANGED <<lexer, tokens, lex_result, is_main_module, parse_result, check_result,
                   lhs_type, rhs_type, type_result>>

NextDriver ==
    ScanToken \/ tokenize_internal_end \/ parse_source_parse \/ invoke_compiler_return

SpecDriver == Init /\ [][NextDriver]_vars

(***************************************************************************)
(* The DataType functions, applied to every pair of types.                 *)
(***************************************************************************)
DataTypes == {Known(k) : k \in KnownDataType} \cup {UserDefined("MyType")}

InitTypes ==
    /\ pc = "types"
    /\ lexer = Lexer_new("mabel://stdin", <<>>)
    /\ tokens = <<>>
    /\ lex_result = Pending
    /\ is_main_module = FALSE
    /\ parse_result = Pending
    /\ check_result = Pending
    /\ lhs_type \in DataTypes
    /\ rhs_type \in DataTypes
    /\ type_result = [fn |-> "none", value |-> Pending]
    /\ compile_result = Pending

CanImplicitlyCastTo ==
    /\ pc = "types"
    /\ type_result' = [fn |-> "can_implictly_cast_to",
                       value |-> can_implictly_cast_to(lhs_type, rhs_type)]
    /\ pc' = "done"
    /\ UNCHANGED <<lexer, tokens, lex_result, is_main_module, parse_result,
                   check_result, lhs_type, rhs_type, compile_result>>

BinaryExprResultDataType ==
    /\ pc = "types"
    /\ type_result' = [fn |-> "binary_expr_result_data_type",
                       value |-> binary_expr_result_data_type(lhs_type, rhs_type)]
    /\ pc' = "done"
    /\ UNCHANGED <<lexer, tokens, lex_result, is_main_module, parse_result,
                   check_result, lhs_type, rhs_type, compile_result>>

\* A negate of a literal whose value is of the kind of rhs_type, as the
\* parser builds it (the tests of the checker build it without tokens).
NegateOf(kind) ==
    [tag |-> "Unary",
     operator |-> "Negate",
     operator_token |-> None,
     right |-> [tag |-> "Literal", value |-> [tag |-> kind, number |-> 1], token |-> None]]

VisitUnaryExpr ==
    /\ pc = "types"
    /\ rhs_type.tag = "Known"
    /\ type_result' = [fn |-> "visit_unary_expr",
                       value |-> visit_unary_expr(lexer.source_id, NegateOf(rhs_type.kind))]
    /\ pc' = "done"
    /\ UNCHANGED <<lexer, tokens, lex_result, is_main_module, parse_result,
                   check_result, lhs_type, rhs_type, compile_result>>

NextTypes == CanImplicitlyCastTo \/ BinaryExprResultDataType \/ VisitUnaryExpr

SpecTypes == InitTypes /\ [][NextTypes]_vars

(***************************************************************************)
(* The claims about the front end.                                         *)
(***************************************************************************)

\* C1: for every source, the empty one and those ending in skippable
\* whitespace included, Lexer::tokenize returns Ok(tokens) or
\* Err(LexerError) and never aborts.
C1_TokenizeReturnsOkOrErr ==
    pc # "tokenize" => lex_result.tag \in {"Ok", "Err"}

\* C2: for every token list a successful tokenize returned, Parser::parse
\* returns Ok(Module) or Err(ParserError): it never aborts, never calls a
\* missing infix handler and never reads past the EndOfInput token.
C2_ParseReturnsOkOrErr ==
    (pc \in {"check", "done"} /\ lex_result.tag = "Ok")
        => parse_result.tag \in {"Ok", "Err"}

\* C3: checking a unary negate succeeds exactly when the operand's type is
\* Float32, Double, Int8, Int16, Int32, Int64 or Int, and the annotated
\* unary node then has the operand's type; for every other operand type it
\* fails with InvalidOperand.
C3_NegateSucceedsOnSignedOrFloat ==
    type_result.fn = "visit_unary_expr" =>
        IF rhs_type.kind \in {"Float32", "Double", "Int8", "Int16", "Int32", "Int64", "Int"}
        THEN /\ type_result.value.tag = "Ok"
             /\ type_result.value.value.tag = "Unary"
             /\ type_result.value.value.data_type = rhs_type
        ELSE /\ type_result.value.tag = "Err"
             /\ type_result.value.error.code = "InvalidOperand"

\* C4: in every token list a successful tokenize returns, the EndOfInput
\* token occurs exactly once and is the last token.
C4_EndOfInputOnceAndLast ==
    lex_result.tag = "Ok" =>
        /\ Len(lex_result.value) >= 1
        /\ lex_result.value[Len(lex_result.value)].kind.tag = "EndOfInput"
        /\ \A i \in 1 .. Len(lex_result.value) - 1 :
               lex_result.value[i].kind.tag # "EndOfInput"

\* A successful tokenize of a source with several tokens before its end.
C4_Witness ==
    /\ lex_result.tag = "Ok"
    /\ Len(lex_result.value) >= 4
    /\ Len(lexer.graphemes) = MaxLen

\* C5: for every source that tokenizes successfully, the final EndOfInput
\* token has a zero-width span at the end of the source: span.start =
\* span.end, span.end.offset = the byte length of the source, and its lexeme
\* is empty.
C5_EndOfInputZeroWidthAtEnd ==
    lex_result.tag = "Ok" =>
        /\ lex_result.value[Len(lex_result.value)].span.start
               = lex_result.value[Len(lex_result.value)].span.end
        /\ lex_result.value[Len(lex_result.value)].span.end.offset
               = Len(lexer.source_code)
        /\ lex_result.value[Len(lex_result.value)].lexeme = <<>>

\* C6: for every source that tokenizes successfully, the lexemes of the
\* returned tokens, concatenated in order, are the source text exactly.
C6_LexemesConcatenateToSource ==
    lex_result.tag = "Ok" =>
        Concat([i \in 1 .. Len(lex_result.value) |-> lex_result.value[i].lexeme])
            = lexer.source_code

\* C7: for every token of a list tokenize returns, the lexeme is the source
\* substring from span.start.offset to span.end.offset, span.start.offset <=
\* span.end.offset, and the token's source_id is the one passed to tokenize.
C7_LexemeIsSpanOfSource ==
    lex_result.tag = "Ok" =>
        \A i \in 1 .. Len(lex_result.value) :
            /\ lex_result.value[i].span.start.offset <= lex_result.value[i].span.end.offset
            /\ lex_result.value[i].lexeme
                   = SubSeq(lexer.source_code,
                            lex_result.value[i].span.start.offset + 1,
                            lex_result.value[i].span.end.offset)
            /\ lex_result.value[i].source_id = lexer.source_id

\* A returned token that starts after a two-byte grapheme, so that its byte
\* offsets differ from its grapheme indices, under the second source id.
C7_Witness ==
    /\ lex_result.tag = "Ok"
    /\ lexer.source_id = "file:///a.mabel"
    /\ \E i \in 1 .. Len(lex_result.value) :
           /\ lex_result.value[i].kind.tag # "EndOfInput"
           /\ lex_result.value[i].span.start.offset > lex_result.value[i].span.start.char_index
           /\ lex_result.value[i].lexeme # <<>>

\* C8: for a source that is a run of decimal digits, a suffix letter s in
\* {f, d, i, u} and a string w of decimal digits, tokenize succeeds if and
\* only if (s = f and w is empty, 32 or 64) or (s = d and w is empty) or
\* (s is i or u and w is empty, 8, 16, 32 or 64); in every other case it
\* fails with InvalidNumberLiteralWidth, whose span runs from the suffix
\* letter to the end of the digits of the width.
C8_NumberWidthValidated ==
    pc # "tokenize" =>
        \A k \in 2 .. Len(lexer.graphemes) :
            (/\ lexer.graphemes[k] \in {"f", "d", "i", "u"}
             /\ \A j \in (1 .. Len(lexer.graphemes)) \ {k} :
                    lexer.graphemes[j] \in
                        {"0", "1", "2", "3", "4", "5", "6", "7", "8", "9"})
            => IF \/ /\ lexer.graphemes[k] = "f"
                     /\ SubSeq(lexer.graphemes, k + 1, Len(lexer.graphemes))
                            \in {<<>>, <<"3", "2">>, <<"6", "4">>}
                  \/ /\ lexer.graphemes[k] = "d"
                     /\ SubSeq(lexer.graphemes, k + 1, Len(lexer.graphemes)) = <<>>
                  \/ /\ lexer.graphemes[k] \in {"i", "u"}
                     /\ SubSeq(lexer.graphemes, k + 1, Len(lexer.graphemes))
                            \in {<<>>, <<"8">>, <<"1", "6">>, <<"3", "2">>, <<"6", "4">>}
               THEN lex_result.tag = "Ok"
               ELSE /\ lex_result.tag = "Err"
                    /\ lex_result.error.code = "InvalidNumberLiteralWidth"
                    /\ lex_result.error.location =
                           [tag |-> "Span",
                            span |-> [start |-> [line |-> 1, column |-> k,
                                                 char_index |-> k - 1, offset |-> k - 1],
                                      end |-> [line |-> 1,
                                               column |-> Len(lexer.graphemes) + 1,
                                               char_index |-> Len(lexer.graphemes),
                                               offset |-> Len(lexer.graphemes)]]]

\* A number with two digits, the suffix f and a width that f does not take,
\* refused by tokenize.
C8_Witness ==
    /\ pc # "tokenize"
    /\ Len(lexer.graphemes) = 4
    /\ lexer.graphemes[1] \in {"1", "2", "3", "4", "6", "8"}
    /\ lexer.graphemes[2] \in {"1", "2", "3", "4", "6", "8"}
    /\ lexer.graphemes[3] = "f"
    /\ lexer.graphemes[4] = "8"
    /\ lex_result.tag = "Err"
    /\ lex_result.error.code = "InvalidNumberLiteralWidth"

\* C9: for all source and target types among the twelve known kinds and
\* UserDefined, can_implictly_cast_to(source, target) is true exactly when
\* both are signed integers and the target is at least as wide, or both are
\* unsigned integers and the target is at least as wide, or the source is an
\* integer and the target a float, or both are floats and the target is at
\* least as wide, where Int and UInt are 32 bits wide.  It is false across
\* signedness, from a float to an integer, and when either is UserDefined.
C9_ImplicitCastCharacterised ==
    type_result.fn = "can_implictly_cast_to" =>
        LET Signed == {"Int8", "Int16", "Int32", "Int64", "Int"}
            Unsigned == {"UInt8", "UInt16", "UInt32", "UInt64", "UInt"}
            Floats == {"Float32", "Double"}
            Width == [Int8 |-> 8, Int16 |-> 16, Int32 |-> 32, Int64 |-> 64, Int |-> 32,
                      UInt8 |-> 8, UInt16 |-> 16, UInt32 |-> 32, UInt64 |-> 64,
                      UInt |-> 32, Float32 |-> 32, Double |-> 64]
        IN /\ type_result.value =
                  (/\ lhs_type.tag = "Known"
                   /\ rhs_type.tag = "Known"
                   /\ \/ /\ lhs_type.kind \in Signed
                         /\ rhs_type.kind \in Signed
                         /\ Width[rhs_type.kind] >= Width[lhs_type.kind]
                      \/ /\ lhs_type.kind \in Unsigned
                         /\ rhs_type.kind \in Unsigned
                         /\ Width[rhs_type.kind] >= Width[lhs_type.kind]
                      \/ /\ lhs_type.kind \in Signed \cup Unsigned
                         /\ rhs_type.kind \in Floats
                      \/ /\ lhs_type.kind \in Floats
                         /\ rhs_type.kind \in Floats
                         /\ Width[rhs_type.kind] >= Width[lhs_type.kind])
           /\ (lhs_type.tag = "UserDefined" \/ rhs_type.tag = "UserDefined")
                  => type_result.value = FALSE
           /\ (lhs_type.tag = "Known" /\ rhs_type.tag = "Known")
                  => /\ (lhs_type.kind \in Signed /\ rhs_type.kind \in Unsigned)
                            => type_result.value = FALSE
                     /\ (lhs_type.kind \in Unsigned /\ rhs_type.kind \in Signed)
                            => type_result.value = FALSE
                     /\ (lhs_type.kind \in Floats /\ rhs_type.kind \in Signed \cup Unsigned)
                            => type_result.value = FALSE

\* Int cast to Int32: allowed only because Int is 32 bits wide.
C9_Witness ==
    /\ type_result.fn = "can_implictly_cast_to"
    /\ lhs_type = Known("Int")
    /\ rhs_type = Known("Int32")
    /\ type_result.value = TRUE

\* C10: for all left and right types, binary_expr_result_data_type(left,
\* right) is left if the two are the same known kind; otherwise left if
\* right can implicitly cast to left; otherwise right if left can implicitly
\* cast to right; otherwise None.  It is None for every pair of a signed and
\* an unsigned integer, and it is Some for (l, r) if and only if it is Some
\* for (r, l).
C10_BinaryResultType ==
    type_result.fn = "binary_expr_result_data_type" =>
        LET Signed == {"Int8", "Int16", "Int32", "Int64", "Int"}
            Unsigned == {"UInt8", "UInt16", "UInt32", "UInt64", "UInt"}
        IN /\ type_result.value =
                  (IF lhs_type.tag = "Known" /\ rhs_type.tag = "Known"
                      /\ lhs_type.kind = rhs_type.kind
                   THEN <<lhs_type>>
                   ELSE IF can_implictly_cast_to(rhs_type, lhs_type) THEN <<lhs_type>>
                   ELSE IF can_implictly_cast_to(lhs_type, rhs_type) THEN <<rhs_type>>
                   ELSE <<>>)
           /\ (/\ lhs_type.tag = "Known"
               /\ rhs_type.tag = "Known"
               /\ \/ lhs_type.kind \in Signed /\ rhs_type.kind \in Unsigned
                  \/ lhs_type.kind \in Unsigned /\ rhs_type.kind \in Signed)
                  => type_result.value = <<>>
           /\ (type_result.value # <<>>)
                  <=> (binary_expr_result_data_type(rhs_type, lhs_type) # <<>>)

\* Two different types that cast to each other: the left one is the result.
C10_Witness ==
    /\ type_result.fn = "binary_expr_result_data_type"
    /\ lhs_type = Known("Int")
    /\ rhs_type = Known("Int32")
    /\ type_result.value = <<Known("Int")>>

\* C11: for literals a, b, c and binary operators op1, op2 where op2 has
\* strictly higher precedence than op1 (Term: + -; Factor: * / %; Exponent:
\* **), 'a op1 b op2 c' parses to Binary(op1, a, Binary(op2, b, c)) and
\* 'a op2 b op1 c' parses to Binary(op1, Binary(op2, a, b), c).
C11_HigherPrecedenceBindsTighter ==
    (/\ pc \in {"check", "done"}
     /\ lex_result.tag = "Ok"
     /\ Len(lex_result.value) = 6
     /\ \A i \in {1, 3, 5} : lex_result.value[i].kind.tag = "Literal"
     /\ \A i \in {2, 4} : lex_result.value[i].kind.tag \in
            {"Add", "SubtractOrNegate", "Multiply", "Divide", "Modulo", "Exponent"})
    => LET t == lex_result.value
           Level == [Add |-> 1, SubtractOrNegate |-> 1, Multiply |-> 2, Divide |-> 2,
                     Modulo |-> 2, Exponent |-> 3]
           Name == [Add |-> "Add", SubtractOrNegate |-> "Subtract",
                    Multiply |-> "Multiply", Divide |-> "Divide", Modulo |-> "Modulo",
                    Exponent |-> "Exponent"]
           IsLiteral(n, i) == n.tag = "Literal" /\ n.token = <<t[i]>>
           IsBinary(n, i) ==
               /\ n.tag = "Binary"
               /\ n.operator = Name[t[i].kind.tag]
               /\ n.operator_token = <<t[i]>>
           Statements == IF is_main_module
                         THEN parse_result.value.statements[1].body
                         ELSE parse_result.value.statements
       IN /\ Level[t[4].kind.tag] > Level[t[2].kind.tag]
                => /\ parse_result.tag = "Ok"
                   /\ Len(Statements) = 1
                   /\ Statements[1].tag = "Expression"
                   /\ IsBinary(Statements[1].expression, 2)
                   /\ IsLiteral(Statements[1].expression.left, 1)
                   /\ IsBinary(Statements[1].expression.right, 4)
                   /\ IsLiteral(Statements[1].expression.right.left, 3)
                   /\ IsLiteral(Statements[1].expression.right.right, 5)
          /\ Level[t[2].kind.tag] > Level[t[4].kind.tag]
                => /\ parse_result.tag = "Ok"
                   /\ Len(Statements) = 1
                   /\ Statements[1].tag = "Expression"
                   /\ IsBinary(Statements[1].expression, 4)
                   /\ IsBinary(Statements[1].expression.left, 2)
                   /\ IsLiteral(Statements[1].expression.left.left, 1)
                   /\ IsLiteral(Statements[1].expression.left.right, 3)
                   /\ IsLiteral(Statements[1].expression.right, 5)

\* '1 + 1u8 * 1' parsed: a Term operator before a Factor operator.
C11_Witness ==
    /\ parse_result.tag = "Ok"
    /\ Len(lex_result.value) = 6
    /\ lex_result.value[2].kind.tag = "Add"
    /\ lex_result.value[3].lexeme = <<"1", "u", "8">>
    /\ lex_result.value[4].kind.tag = "Multiply"
    /\ lex_result.value[5].kind.tag = "Literal"

\* C12: a chain of exponent operators parses right-nested: 'a**b**c' is
\* Binary(Exponent, a, Binary(Exponent, b, c)), and a chain of n exponent
\* operators nests entirely to the right.
C12_ExponentChainNestsRight ==
    (/\ pc \in {"check", "done"}
     /\ lex_result.tag = "Ok"
     /\ Len(lex_result.value) >= 4
     /\ Len(lex_result.value) % 2 = 0
     /\ \A i \in 1 .. Len(lex_result.value) - 1 :
            lex_result.value[i].kind.tag = (IF i % 2 = 1 THEN "Literal" ELSE "Exponent"))
    => LET t == lex_result.value
           Statements == IF is_main_module
                         THEN parse_result.value.statements[1].body
                         ELSE parse_result.value.statements
           RECURSIVE RightNested(_, _)
           RightNested(n, i) ==
               IF i = Len(t) - 1
               THEN n.tag = "Literal" /\ n.token = <<t[i]>>
               ELSE /\ n.tag = "Binary"
                    /\ n.operator = "Exponent"
                    /\ n.operator_token = <<t[i + 1]>>
                    /\ n.left.tag = "Literal"
                    /\ n.left.token = <<t[i]>>
                    /\ RightNested(n.right, i + 2)
       IN /\ parse_result.tag = "Ok"
          /\ Len(Statements) = 1
          /\ Statements[1].tag = "Expression"
          /\ RightNested(Statements[1].expression, 1)

\* A chain of three exponent operators, parsed.
C12_Witness ==
    /\ parse_result.tag = "Ok"
    /\ lex_result.tag = "Ok"
    /\ Len(lex_result.value) = 8
    /\ \A i \in {2, 4, 6} : lex_result.value[i].kind.tag = "Exponent"

\* C13: a chain of operators of one left-associative level parses
\* left-nested: for literals a, b, c and op1, op2 both in {+, -} or both in
\* {*, /, %}, 'a op1 b op2 c' is Binary(op2, Binary(op1, a, b), c).
C13_SameLevelNestsLeft ==
    (/\ pc \in {"check", "done"}
     /\ lex_result.tag = "Ok"
     /\ Len(lex_result.value) = 6
     /\ \A i \in {1, 3, 5} : lex_result.value[i].kind.tag = "Literal"
     /\ \/ \A i \in {2, 4} : lex_result.value[i].kind.tag \in {"Add", "SubtractOrNegate"}
        \/ \A i \in {2, 4} : lex_result.value[i].kind.tag \in
                                 {"Multiply", "Divide", "Modulo"})
    => LET t == lex_result.value
           Name == [Add |-> "Add", SubtractOrNegate |-> "Subtract",
                    Multiply |-> "Multiply", Divide |-> "Divide", Modulo |-> "Modulo"]
           IsLiteral(n, i) == n.tag = "Literal" /\ n.token = <<t[i]>>
           IsBinary(n, i) ==
               /\ n.tag = "Binary"
               /\ n.operator = Name[t[i].kind.tag]
               /\ n.operator_token = <<t[i]>>
           Statements == IF is_main_module
                         THEN parse_result.value.statements[1].body
                         ELSE parse_result.value.statements
       IN /\ parse_result.tag = "Ok"
          /\ Len(Statements) = 1
          /\ Statements[1].tag = "Expression"
          /\ IsBinary(Statements[1].expression, 4)
          /\ IsBinary(Statements[1].expression.left, 2)
          /\ IsLiteral(Statements[1].expression.left.left, 1)
          /\ IsLiteral(Statements[1].expression.left.right, 3)
          /\ IsLiteral(Statements[1].expression.right, 5)

\* '1 / 1 % 1u8' parsed: two different operators of the Factor level.
C13_Witness ==
    /\ parse_result.tag = "Ok"
    /\ lex_result.tag = "Ok"
    /\ Len(lex_result.value) = 6
    /\ lex_result.value[2].kind.tag = "Divide"
    /\ lex_result.value[4].kind.tag = "Modulo"
    /\ lex_result.value[5].lexeme = <<"1", "u", "8">>

\* C14: for every successful parse with is_main_module = true the Module
\* has exactly one top-level statement, a FunctionDeclaration named 'main'
\* with no parameters whose body is the list of the parsed statements in
\* source order (possibly empty); with is_main_module = false the parsed
\* statements are the Module's top-level statements unchanged.
C14_MainModuleIsWrapped ==
    parse_result.tag = "Ok" =>
        LET P0 == Parser_new(lex_result.value, lexer.source_id, is_main_module)
            parsed == parse_statements(consume_newlines(P0).parser).value
            Start(stmt) == Statement_get_span(stmt)[1].start.offset
        IN /\ \A i \in 1 .. Len(parsed), j \in 1 .. Len(parsed) :
                  i < j => Start(parsed[i]) < Start(parsed[j])
           /\ IF is_main_module
              THEN /\ Len(parse_result.value.statements) = 1
                   /\ parse_result.value.statements[1].tag = "FunctionDeclaration"
                   /\ Len(parse_result.value.statements[1].name) = 1
                   /\ parse_result.value.statements[1].name[1].lexeme
                          = <<"m", "a", "i", "n">>
                   /\ parse_result.value.statements[1].parameters = <<>>
                   /\ parse_result.value.statements[1].body = parsed
              ELSE parse_result.value.statements = parsed

\* A main module of two statements, parsed.
C14_Witness ==
    /\ parse_result.tag = "Ok"
    /\ is_main_module
    /\ Len(parse_result.value.statements) = 1
    /\ Len(parse_result.value.statements[1].body) = 2

C16_AnnotatedMirrorsRaw ==
    LET RECURSIVE SameExpr(_, _)
        SameExpr(raw, ann) ==
            CASE raw.tag = "Literal" -> ann.tag = "Literal"
              [] raw.tag = "Grouping" ->
                   ann.tag = "Group" /\ SameExpr(raw.expression, ann.inner.expression)
              [] raw.tag = "Unary" ->
                   ann.tag = "Unary" /\ SameExpr(raw.right, ann.inner.right)
              [] raw.tag = "Binary" ->
                   /\ ann.tag = "Binary"
                   /\ SameExpr(raw.left, ann.inner.left)
                   /\ SameExpr(raw.right, ann.inner.right)
        RECURSIVE SameStmt(_, _)
        SameStmt(raw, ann) ==
            CASE raw.tag = "Expression" ->
                   ann.tag = "Expression" /\ SameExpr(raw.expression, ann.inner.expression)
              [] raw.tag = "Echo" ->
                   ann.tag = "Echo" /\ SameExpr(raw.expression, ann.inner.expression)
              [] raw.tag = "FunctionDeclaration" ->
                   /\ ann.tag = "FunctionDecl"
                   /\ Len(ann.inner.body) = Len(raw.body)
                   /\ \A i \in 1 .. Len(raw.body) : SameStmt(raw.body[i], ann.inner.body[i])
    IN check_result.tag = "Ok" =>
         /\ Len(check_result.value.statements) = Len(parse_result.value.statements)
         /\ \A i \in 1 .. Len(parse_result.value.statements) :
                SameStmt(parse_result.value.statements[i],
                         check_result.value.statements[i])

\* C16 as the code has it: for every module that checks successfully, every
\* raw statement and every raw literal, unary and binary expression has
\* exactly one annotated node of the same kind at the same position, with the
\* same operator and tokens, while a raw grouping has no node of its own: at
\* its position stands the annotated node of the expression inside it.
C16_AnnotatedMirrorsRawButGroupings ==
    LET RECURSIVE SameExpr(_, _)
        SameExpr(raw, ann) ==
            CASE raw.tag = "Literal" -> ann.tag = "Literal" /\ ann.inner = raw
              [] raw.tag = "Grouping" -> SameExpr(raw.expression, ann)
              [] raw.tag = "Unary" ->
                   /\ ann.tag = "Unary"
                   /\ ann.inner.operator = raw.operator
                   /\ ann.inner.operator_token = raw.operator_token
                   /\ SameExpr(raw.right, ann.inner.right)
              [] raw.tag = "Binary" ->
                   /\ ann.tag = "Binary"
                   /\ ann.inner.operator = raw.operator
                   /\ ann.inner.operator_token = raw.operator_token
                   /\ SameExpr(raw.left, ann.inner.left)
                   /\ SameExpr(raw.right, ann.inner.right)
        RECURSIVE SameStmt(_, _)
        SameStmt(raw, ann) ==
            CASE raw.tag = "Expression" ->
                   ann.tag = "Expression" /\ SameExpr(raw.expression, ann.inner.expression)
              [] raw.tag = "Echo" ->
                   /\ ann.tag = "Echo"
                   /\ ann.inner.echo_token = raw.echo_token
                   /\ SameExpr(raw.expression, ann.inner.expression)
              [] raw.tag = "FunctionDeclaration" ->
                   /\ ann.tag = "FunctionDecl"
                   /\ ann.inner.name = raw.name
                   /\ Len(ann.inner.body) = Len(raw.body)
                   /\ \A i \in 1 .. Len(raw.body) : SameStmt(raw.body[i], ann.inner.body[i])
    IN check_result.tag = "Ok" =>
         /\ check_result.value.id = lexer.source_id
         /\ Len(check_result.value.statements) = Len(parse_result.value.statements)
         /\ \A i \in 1 .. Len(parse_result.value.statements) :
                SameStmt(parse_result.value.statements[i],
                         check_result.value.statements[i])

\* A main module checked successfully whose function holds an expression
\* statement and an echo of a binary expression with a grouping on its left.
C16_Witness ==
    /\ check_result.tag = "Ok"
    /\ is_main_module
    /\ Len(parse_result.value.statements) = 1
    /\ parse_result.value.statements[1].tag = "FunctionDeclaration"
    /\ LET body == parse_result.value.statements[1].body
       IN /\ Len(body) = 2
          /\ body[1].tag = "Expression"
          /\ body[2].tag = "Echo"
          /\ body[2].expression.tag = "Binary"
          /\ body[2].expression.left.tag = "Grouping"


\* C17: in the driver, once tokenize has failed the parser and the checker
\* are never invoked and what the driver returns is the lexer's error; once
\* the parser has failed the checker is never invoked and what the driver
\* returns is the parser's error.
C17_FailedStageStopsPipeline ==
    /\ lex_result.tag = "Err" =>
          /\ parse_result = Pending
          /\ check_result = Pending
          /\ pc \in {"done", "returned"}
          /\ pc = "returned" =>
                compile_result = Err(Error_new(ErrorKind("LexerError", lex_result.error),
                                               ExitCode_SYNTAX_ERROR))
    /\ parse_result.tag = "Err" =>
          /\ lex_result.tag = "Ok"
          /\ check_result = Pending
          /\ pc \in {"done", "returned"}
          /\ pc = "returned" =>
                compile_result = Err(Error_new(ErrorKind("ParserError", parse_result.error),
                                               ExitCode_SYNTAX_ERROR))

\* The driver has returned the error of a lexer that failed after it had
\* scanned a token.
C17_Witness ==
    /\ pc = "returned"
    /\ lex_result.tag = "Err"
    /\ tokens # <<>>
    /\ compile_result.tag = "Err"
    /\ compile_result.error.kind.tag = "LexerError"
    /\ parse_result = Pending


\* C18: in the driver, for a source that lexes and parses successfully the
\* stages run in the order lex, parse, check: when the driver reports
\* success the semantic checker has been run on the parsed module.
C18_CheckerRunsBeforeSuccess ==
    (pc = "returned" /\ compile_result = Ok(ExitCode_SUCCESS)) =>
        /\ lex_result.tag = "Ok"
        /\ parse_result.tag = "Ok"
        /\ check_result = SemanticChecker_check(lexer.source_id, parse_result.value)


\* C19: for every maximal run of spaces (resp. tabs) that the lexer has
\* scanned, tokenize has emitted exactly one Whitespace (resp. Tab) token,
\* spanning the run, when the run starts at column 1 and the grapheme right
\* after it exists and is not a newline, and no token otherwise; and every
\* Whitespace or Tab token stands at the start of such a run.
C19_LayoutTokenOnlyAtLineStart ==
    LET g == lexer.graphemes
        n == Len(g)
        NewLinesBefore(i) == {m \in 1 .. i : is_newline(g[m])}
        Last(S) == CHOOSE m \in S : \A k \in S : k <= m
        Column(i) == IF NewLinesBefore(i) = {} THEN i + 1
                     ELSE i - Last(NewLinesBefore(i)) + 1
        RunStarts(c) == {i \in 0 .. n - 1 : g[i + 1] = c /\ (i = 0 \/ g[i] # c)}
        RunEnd(i, c) == CHOOSE j \in i + 1 .. n :
                            /\ \A m \in i + 1 .. j : g[m] = c
                            /\ j = n \/ g[j + 1] # c
        TokensAt(i, kind) == {t \in 1 .. Len(tokens) :
                                 /\ tokens[t] # None
                                 /\ unwrap(tokens[t]).kind.tag = kind
                                 /\ unwrap(tokens[t]).span.start.char_index = i}
        Holds(c, kind) ==
            /\ \A i \in RunStarts(c) :
                  RunEnd(i, c) <= lexer.current.char_index =>
                     IF /\ Column(i) = 1
                        /\ RunEnd(i, c) < n
                        /\ ~is_newline(g[RunEnd(i, c) + 1])
                     THEN /\ Cardinality(TokensAt(i, kind)) = 1
                          /\ \A t \in TokensAt(i, kind) :
                                /\ unwrap(tokens[t]).span.start.column = 1
                                /\ unwrap(tokens[t]).span.end.char_index = RunEnd(i, c)
                                /\ unwrap(tokens[t]).lexeme = SubSeq(g, i + 1, RunEnd(i, c))
                     ELSE TokensAt(i, kind) = {}
            /\ \A t \in 1 .. Len(tokens) :
                  (tokens[t] # None /\ unwrap(tokens[t]).kind.tag = kind) =>
                     unwrap(tokens[t]).span.start.char_index \in RunStarts(c)
    IN /\ Holds(" ", "Whitespace")
       /\ Holds("\t", "Tab")
       /\ lex_result.tag = "Ok" => lexer.current.char_index = n

\* Tokenize has returned for a source where a run at the start of a line was
\* emitted as a Whitespace or Tab token and a later run of the same kind,
\* not at column 1, was consumed without a token.
C19_Witness ==
    /\ lex_result.tag = "Ok"
    /\ \E c \in {" ", "\t"} :
          /\ \E t \in 1 .. Len(lex_result.value) :
                /\ lex_result.value[t].kind.tag \in {"Whitespace", "Tab"}
                /\ lex_result.value[t].lexeme = <<c>>
          /\ \E i \in 2 .. Len(lexer.graphemes) :
                /\ lexer.graphemes[i] = c
                /\ lexer.graphemes[i - 1] = "1"
                /\ \A t \in 1 .. Len(lex_result.value) :
                      lex_result.value[t].kind.tag \in {"Whitespace", "Tab"} =>
                         lex_result.value[t].span.start.char_index # i - 1


\* C20: whenever the lexer has scanned a token that starts at an XID_Start
\* grapheme, it has consumed the whole run of XID_Continue graphemes from
\* there; when that run is the text echo it has emitted exactly one Echo
\* token spanning the run and has not failed, and for any other run tokenize
\* has failed with UnimplementedFeature, located at the span from the first
\* to past the last grapheme of the run and carrying the source id of the
\* lexer.  Every Echo token is such a run of the text echo, and every
\* UnimplementedFeature failure is located at such a run of another text.
C20_EchoIsTheOnlyIdentifier ==
    LET g == lexer.graphemes
        n == Len(g)
        i == lexer.start.char_index
        j == lexer.current.char_index
        echo == <<"e", "c", "h", "o">>
        IsRun(a, b) ==
            /\ a < b /\ b <= n
            /\ is_xid_start(g[a + 1])
            /\ \A m \in a + 1 .. b : is_xid_continue(g[m])
            /\ b = n \/ ~is_xid_continue(g[b + 1])
        EchoAt(a) == {t \in 1 .. Len(tokens) :
                         /\ tokens[t] # None
                         /\ unwrap(tokens[t]).kind.tag = "Echo"
                         /\ unwrap(tokens[t]).span.start.char_index = a}
        Failed == /\ lex_result.tag = "Err"
                  /\ lex_result.error.code = "UnimplementedFeature"
    IN /\ (i < j /\ is_xid_start(g[i + 1])) =>
             /\ IsRun(i, j)
             /\ IF SubSeq(g, i + 1, j) = echo
                THEN /\ Cardinality(EchoAt(i)) = 1
                     /\ lex_result.tag # "Err"
                ELSE /\ EchoAt(i) = {}
                     /\ Failed
       /\ \A t \in 1 .. Len(tokens) :
             (tokens[t] # None /\ unwrap(tokens[t]).kind.tag = "Echo") =>
                /\ unwrap(tokens[t]).lexeme = echo
                /\ unwrap(tokens[t]).source_id = lexer.source_id
                /\ IsRun(unwrap(tokens[t]).span.start.char_index,
                         unwrap(tokens[t]).span.end.char_index)
                /\ SubSeq(g, unwrap(tokens[t]).span.start.char_index + 1,
                          unwrap(tokens[t]).span.end.char_index) = echo
       /\ Failed =>
             /\ IsRun(i, j)
             /\ SubSeq(g, i + 1, j) # echo
             /\ lex_result.error.location = Location_Span(Span_new(lexer.start, lexer.current))
             /\ lexer.start.offset = i
             /\ lexer.current.offset = j
             /\ lexer.current.column = lexer.start.column + (j - i)
             /\ lex_result.error.source_id = lexer.source_id

\* Tokenize has emitted an Echo token and has then failed at a longer
\* identifier run that begins with echo.
C20_Witness ==
    /\ lex_result.tag = "Err"
    /\ lex_result.error.code = "UnimplementedFeature"
    /\ \E t \in 1 .. Len(tokens) :
          tokens[t] # None /\ unwrap(tokens[t]).kind.tag = "Echo"
    /\ lexer.current.char_index - lexer.start.char_index > 4
    /\ SubSeq(lexer.graphemes, lexer.start.char_index + 1,
              lexer.start.char_index + 4) = <<"e", "c", "h", "o">>


\* C21: walking the token list as the grammar reads it (statements apart by
\* newlines, an optional echo, then operands and binary operators, a
\* grouping closed by the token after its inner expression), the first
\* token that stands where an expression must start and has no prefix
\* handler, EndOfInput included, makes parse fail with ExpectedExpression
\* located at that token's span and carrying the parser's source id, so no
\* module is returned; and parse fails with ExpectedExpression only so.
C21_ExpectedExpressionAtOffendingToken ==
    LET toks == lex_result.value
        n == Len(toks)
        kind(i) == toks[i].kind.tag
        HasPrefix(i) == kind(i) \in {"SubtractOrNegate", "LeftParen", "Literal"}
        IsBinary(i) == kind(i) \in {"Add", "SubtractOrNegate", "Multiply", "Divide",
                                    "Modulo", "Exponent"}
        \* 0: no such token is met; i: the token at i is the first one
        RECURSIVE Operand(_, _)
        RECURSIVE After(_, _)
        RECURSIVE Statement(_)
        Operand(i, depth) ==
            IF i > n THEN 0
            ELSE IF kind(i) \in {"SubtractOrNegate", "LeftParen"}
            THEN Operand(i + 1, IF kind(i) = "LeftParen" THEN depth + 1 ELSE depth)
            ELSE IF kind(i) = "Literal" THEN After(i + 1, depth)
            ELSE i
        After(i, depth) ==
            IF i > n THEN 0
            ELSE IF IsBinary(i) THEN Operand(i + 1, depth)
            ELSE IF kind(i) \in {"Literal", "LeftParen"} THEN 0
            ELSE IF depth > 0 THEN After(i + 1, depth - 1)
            ELSE Statement(i)
        Statement(i) ==
            IF i > n THEN 0
            ELSE IF kind(i) = "NewLine" THEN Statement(i + 1)
            ELSE IF kind(i) = "EndOfInput" THEN 0
            ELSE IF kind(i) = "Echo" THEN Operand(i + 1, 0)
            ELSE Operand(i, 0)
        offending == Statement(1)
        Expected == parse_result.tag = "Err"
                    /\ parse_result.error.code = "ExpectedExpression"
    IN (lex_result.tag = "Ok" /\ parse_result # Pending) =>
          /\ offending # 0 =>
                /\ ~HasPrefix(offending)
                /\ parse_result =
                      Err(ParserError("ExpectedExpression",
                                      Location_Span(toks[offending].span),
                                      lexer.source_id))
          /\ Expected => offending # 0

\* Parse has failed at an EndOfInput token that stands where the operand of
\* an operator must start, the operator not being the first token.
C21_Witness ==
    /\ lex_result.tag = "Ok"
    /\ parse_result.tag = "Err"
    /\ parse_result.error.code = "ExpectedExpression"
    /\ Len(lex_result.value) >= 3
    /\ lex_result.value[1].kind.tag = "Literal"
    /\ parse_result.error.location =
          Location_Span(lex_result.value[Len(lex_result.value)].span)
    /\ parse_result.error.location # Location_Span(lex_result.value[1].span)


\* C22 as stated: over the twelve known numeric types can_implictly_cast_to
\* is a partial order: reflexive, transitive and antisymmetric, two distinct
\* types never casting implicitly to each other.
C22_ImplicitCastIsPartialOrder ==
    (/\ type_result.fn = "can_implictly_cast_to"
     /\ lhs_type.tag = "Known"
     /\ rhs_type.tag = "Known") =>
        /\ can_implictly_cast_to(lhs_type, lhs_type)
        /\ \A k \in KnownDataType :
              (type_result.value /\ can_implictly_cast_to(rhs_type, Known(k)))
                 => can_implictly_cast_to(lhs_type, Known(k))
        /\ (type_result.value /\ can_implictly_cast_to(rhs_type, lhs_type))
              => lhs_type = rhs_type

\* C22 as the code has it: over the twelve known numeric types
\* can_implictly_cast_to is reflexive and transitive, and two distinct types
\* cast implicitly to each other exactly when they are Int and Int32 or UInt
\* and UInt32, both 32 bits wide: a preorder, antisymmetric but for these.
C22_ImplicitCastIsPreorder ==
    (/\ type_result.fn = "can_implictly_cast_to"
     /\ lhs_type.tag = "Known"
     /\ rhs_type.tag = "Known") =>
        /\ can_implictly_cast_to(lhs_type, lhs_type)
        /\ \A k \in KnownDataType :
              (type_result.value /\ can_implictly_cast_to(rhs_type, Known(k)))
                 => can_implictly_cast_to(lhs_type, Known(k))
        /\ (type_result.value /\ can_implictly_cast_to(rhs_type, lhs_type))
              <=> \/ lhs_type = rhs_type
                  \/ {lhs_type.kind, rhs_type.kind} = {"Int", "Int32"}
                  \/ {lhs_type.kind, rhs_type.kind} = {"UInt", "UInt32"}

\* UInt32 cast to UInt, which casts back to UInt32.
C22_Witness ==
    /\ type_result.fn = "can_implictly_cast_to"
    /\ lhs_type = Known("UInt32")
    /\ rhs_type = Known("UInt")
    /\ type_result.value = TRUE
    /\ can_implictly_cast_to(rhs_type, lhs_type)


\* C23: every Grouping node of a parsed module has a right_paren_token of
\* kind RightParen.
C23_GroupingClosedByRightParen ==
    LET RECURSIVE Closed(_)
        Closed(e) ==
            CASE e.tag = "Literal" -> TRUE
              [] e.tag = "Grouping" ->
                   /\ e.right_paren_token # None
                   /\ unwrap(e.right_paren_token).kind.tag = "RightParen"
                   /\ Closed(e.expression)
              [] e.tag = "Unary" -> Closed(e.right)
              [] e.tag = "Binary" -> Closed(e.left) /\ Closed(e.right)
        RECURSIVE ClosedIn(_)
        ClosedIn(stmt) ==
            IF stmt.tag = "FunctionDeclaration"
            THEN \A i \in 1 .. Len(stmt.body) : ClosedIn(stmt.body[i])
            ELSE Closed(stmt.expression)
    IN parse_result.tag = "Ok" =>
          \A i \in 1 .. Len(parse_result.value.statements) :
             ClosedIn(parse_result.value.statements[i])


\* C24: for every literal token with a recorded suffix start, integer or
\* float and wherever it sits in the source, the parser splits the lexeme at
\* suffix_start.offset - span.start.offset: the literal it builds from the
\* token is the one of the text before that index as the number and of the
\* text from there on as the suffix, and a sum of such literals parses.
C24_LexemeSplitAtRelativeSuffixStart ==
    LET toks == lex_result.value
        Suffixed == {i \in 1 .. Len(toks) :
                        /\ toks[i].kind.tag = "Literal"
                        /\ toks[i].kind.suffix_start # None}
        relative(t) == unwrap(t.kind.suffix_start).offset - t.span.start.offset
        number(t) ==
            SubSeq(t.lexeme,
                   IF t.kind.kind.tag = "Integer" /\ t.kind.kind.base # "Decimal"
                   THEN 3 ELSE 1,
                   relative(t))
        suffix(t) == parse_suffix_string(SubSeq(t.lexeme, relative(t) + 1, Len(t.lexeme)))
        type(t) == IF t.kind.kind.tag = "Integer"
                   THEN integer_literal_type(suffix(t).value)
                   ELSE float_literal_type(suffix(t).value)
        value(t) == IF unwrap(type(t)) \in {"Float32", "Double"}
                    THEN parse_float(number(t), unwrap(type(t)))
                    ELSE parse_integer(number(t), unwrap(type(t)))
        \* the suffix is one of the literal's kind and the number is in range
        Accepted(t) == /\ suffix(t).tag = "Ok"
                       /\ type(t) # None
                       /\ value(t).tag = "Ok"
        parsed(i) == parse_literal_expr(
                         [Parser_new(toks, lexer.source_id, is_main_module)
                             EXCEPT !.current = i])
    IN (lex_result.tag = "Ok" /\ parse_result # Pending) =>
          /\ \A i \in Suffixed :
                IF Accepted(toks[i])
                THEN /\ parsed(i).tag = "Ok"
                     /\ parsed(i).value.value = value(toks[i]).value
                ELSE parsed(i).tag = "Abort"
          /\ (\A i \in 1 .. Len(toks) :
                 (toks[i].kind.tag = "Literal" /\ i \notin Suffixed) => parsed(i).tag = "Ok")
             => (parse_result.tag = "Ok" <=> \A i \in Suffixed : Accepted(toks[i]))


\* C25: every literal token that tokenize emits, Integer or Float, with or
\* without a suffix, has a suffix that the parser resolves to a (kind, width)
\* combination recognized for that literal kind, so parse never ends in the
\* unexpected-suffix failure.
C25_LiteralSuffixAlwaysRecognized ==
    LET toks == lex_result.value
        relative(t) == unwrap(t.kind.suffix_start).offset - t.span.start.offset
        suffix(t) == parse_suffix_string(SubSeq(t.lexeme, relative(t) + 1, Len(t.lexeme)))
        Recognized(t) ==
            IF t.kind.suffix_start = None THEN TRUE
            ELSE /\ suffix(t).tag = "Ok"
                 /\ IF t.kind.kind.tag = "Integer"
                    THEN integer_literal_type(suffix(t).value) # None
                    ELSE float_literal_type(suffix(t).value) # None
    IN /\ lex_result.tag = "Ok" =>
             \A i \in 1 .. Len(toks) : toks[i].kind.tag = "Literal" => Recognized(toks[i])
       /\ parse_result # Abort("unexpected suffix")


\* C26: the positions the lexer has taken on its source (its start, its
\* current position, and the start and the end of the span of every token)
\* are positions reached by advancing: the offset of each is the number of
\* bytes of the graphemes before its char_index; and for any two of them p
\* and q, p.char_index <= q.char_index implies p.offset <= q.offset.
C26_OffsetMonotoneInCharIndex ==
    LET g == lexer.graphemes
        Spans == {unwrap(tokens[t]).span : t \in {u \in 1 .. Len(tokens) : tokens[u] # None}}
        Taken == {lexer.start, lexer.current}
                 \cup {sp.start : sp \in Spans} \cup {sp.end : sp \in Spans}
    IN /\ \A p \in Taken :
             /\ p.char_index \in 0 .. Len(g)
             /\ p.offset = Len(SourceCode(SubSeq(g, 1, p.char_index)))
       /\ \A p, q \in Taken :
             /\ p.char_index <= q.char_index => p.offset <= q.offset
             /\ p.char_index < q.char_index => p.offset < q.offset

\* Tokenize has returned a token that starts after a two-byte line end, at
\* an offset beyond its char_index, and a token before that line end.
C26_Witness ==
    /\ lex_result.tag = "Ok"
    /\ \E t, u \in 1 .. Len(lex_result.value) :
          /\ lex_result.value[t].span.start.offset > lex_result.value[t].span.start.char_index
          /\ lex_result.value[t].span.end.offset > lex_result.value[t].span.start.offset
          /\ lex_result.value[u].span.end.char_index < lex_result.value[t].span.start.char_index
          /\ lex_result.value[u].kind.tag = "Literal"


\* C27: every Whitespace or Tab token stands at column 1 of a line that is
\* not empty: between the token and the end of its line (the next newline
\* or the end of the source) there is a grapheme that is neither a space
\* nor a tab.
C27_NoLayoutTokenOnBlankLine ==
    LET g == lexer.graphemes
        n == Len(g)
        LineEnd(i) == CHOOSE j \in i .. n :
                          /\ \A m \in i + 1 .. j : ~is_newline(g[m])
                          /\ j = n \/ is_newline(g[j + 1])
    IN \A t \in 1 .. Len(tokens) :
          (tokens[t] # None /\ unwrap(tokens[t]).kind.tag \in {"Whitespace", "Tab"}) =>
             /\ unwrap(tokens[t]).span.start.column = 1
             /\ \E m \in unwrap(tokens[t]).span.start.char_index + 1 ..
                          LineEnd(unwrap(tokens[t]).span.start.char_index) :
                   g[m] \notin {" ", "\t"}


\* C28: when tokenize fails with InvalidNumberLiteralWidth for a suffix f, i
\* or u, the valid widths named in the message are those of the suffix (32
\* and 64 for f; 8, 16, 32 and 64 for i and u), the width named is the one
\* in the source, and it is not among the valid widths named.
C28_MessageNamesWidthsOfSuffix ==
    (/\ lex_result.tag = "Err"
     /\ lex_result.error.code = "InvalidNumberLiteralWidth"
     /\ lexer.graphemes[lex_result.error.location.span.start.char_index + 1]
           \in {"f", "i", "u"}) =>
        LET span == lex_result.error.location.span
            suffix == lexer.graphemes[span.start.char_index + 1]
            message == lex_result.error.message
        IN /\ message.width = SubSeq(lexer.graphemes, span.start.char_index + 2,
                                     span.end.char_index)
           /\ message.valid_widths =
                 IF suffix = "f" THEN {<<"3", "2">>, <<"6", "4">>}
                 ELSE {<<"8">>, <<"1", "6">>, <<"3", "2">>, <<"6", "4">>}
           /\ message.width \notin message.valid_widths


\* C29: in a parsed module, the number that the Value of an integer literal
\* with the base prefix 0x, 0b or 0o holds is the number its digits (the
\* lexeme without the prefix and the suffix) spell in base 16, 2 or 8.
C29_PrefixedLiteralReadInItsBase ==
    LET Digit == [c \in {"0", "1", "2", "3", "4", "5", "6", "7", "8", "9",
                         "a", "b", "c", "d", "e", "f"} |->
                     CASE c = "0" -> 0 [] c = "1" -> 1 [] c = "2" -> 2 [] c = "3" -> 3
                       [] c = "4" -> 4 [] c = "5" -> 5 [] c = "6" -> 6 [] c = "7" -> 7
                       [] c = "8" -> 8 [] c = "9" -> 9 [] c = "a" -> 10 [] c = "b" -> 11
                       [] c = "c" -> 12 [] c = "d" -> 13 [] c = "e" -> 14 [] c = "f" -> 15]
        Radix(base) == CASE base = "Hexadecimal" -> 16
                         [] base = "Binary" -> 2
                         [] base = "Octal" -> 8
        RECURSIVE InBase(_, _)
        InBase(digits, radix) ==
            IF digits = <<>> THEN 0
            ELSE InBase(SubSeq(digits, 1, Len(digits) - 1), radix) * radix
                 + Digit[digits[Len(digits)]]
        digits(t) == SubSeq(t.lexeme, 3,
                            IF t.kind.suffix_start = None THEN Len(t.lexeme)
                            ELSE unwrap(t.kind.suffix_start).offset - t.span.start.offset)
        Prefixed(e) == /\ e.token # None
                       /\ unwrap(e.token).kind.kind.tag = "Integer"
                       /\ unwrap(e.token).kind.kind.base # "Decimal"
                       /\ e.value.tag \notin {"Float32", "Double"}
        RECURSIVE Read(_)
        Read(e) ==
            CASE e.tag = "Literal" ->
                   Prefixed(e) =>
                      e.value.number = InBase(digits(unwrap(e.token)),
                                              Radix(unwrap(e.token).kind.kind.base))
              [] e.tag = "Grouping" -> Read(e.expression)
              [] e.tag = "Unary" -> Read(e.right)
              [] e.tag = "Binary" -> Read(e.left) /\ Read(e.right)
        RECURSIVE ReadIn(_)
        ReadIn(stmt) ==
            IF stmt.tag = "FunctionDeclaration"
            THEN \A i \in 1 .. Len(stmt.body) : ReadIn(stmt.body[i])
            ELSE Read(stmt.expression)
    IN parse_result.tag = "Ok" =>
          \A i \in 1 .. Len(parse_result.value.statements) :
             ReadIn(parse_result.value.statements[i])


\* C30: every scan_token step that tokenize takes while it is not at the end
\* of the input moves the current position of the lexer forward by at least
\* one grapheme and adds at most one entry to the token list, so tokenize
\* has taken at most as many scan_token steps as the graphemes it is past,
\* and never more than the source has.
C30_EveryScanMovesForward ==
    /\ [][(pc = "tokenize" /\ ~Lexer_is_eoi(lexer)) =>
             /\ lexer'.current.char_index >= lexer.current.char_index + 1
             /\ lexer'.current.char_index <= Len(lexer.graphemes)
             /\ lexer'.graphemes = lexer.graphemes
             /\ Len(tokens') <= Len(tokens) + 1]_vars
    /\ [](pc = "tokenize" =>
             /\ Len(tokens) <= lexer.current.char_index
             /\ lexer.current.char_index <= Len(lexer.graphemes))

\* Tokenize has finished a source of four graphemes in two scan_token
\* steps, one of which moved past more than one grapheme.
C30_Witness ==
    /\ lex_result.tag = "Ok"
    /\ Len(lexer.graphemes) = 4
    /\ Len(tokens) = 3
    /\ lexer.current.char_index = 4

====
